---- MODULE Spec2Model ----
(***************************************************************************)
(* A model of the alt-text generator: the command line pipeline of         *)
(* generate_alt_text.py (main, process_images, process_batch), the         *)
(* programmatic pipeline of processor.py (process_csv_file), the row store *)
(* of csv_handler.py and the pure helpers both pipelines use.              *)
(*                                                                         *)
(* Text is modelled as a sequence of one-character strings, so that the    *)
(* regular expressions and substring tests of the code are computed on the *)
(* characters and not assumed.                                             *)
(***************************************************************************)
EXTENDS Integers, Sequences, FiniteSets, TLC

VARIABLES
    pure,                      \* argument and results of the pure helpers
    mode,                      \* "cli": generate_alt_text.main, "csv": processor.process_csv_file
    tbl,                       \* identity columns of the CSV: Source, Destination, Size (Bytes)
    disk,                      \* the CSV file: which output columns it has, and their cells
    df,                        \* CSVHandler.df: the output columns in memory
    pc,                        \* "idle", "scrape", "rows"
    runs,                      \* how each run started so far ended ("running": still going)
    args,                      \* of the last run started: restart flag, estimate over ceiling,
                               \* file without title column, operator confirmed the restart
    csv_results,               \* processor.ProcessingResults: the three totals
    rows_to_process,           \* indices of the rows returned by get_rows_to_process
    unique_pages,              \* get_unique_pages()
    page_pos,                  \* position of the scrape loop in unique_pages
    page_data,                 \* page URL -> scraped or stored context
    row_pos,                   \* position of the row loop in rows_to_process
    processed_images,          \* exact-URL cache (processor.py: also keyed by base filename)
    processed_base_filenames,  \* base-filename cache
    batch,                     \* the open batch
    batch_base_filenames,      \* base filename -> image URL of the open batch
    pending_variants,          \* rows deferred against the open batch
    progress,                  \* ProgressTracker / ProcessingResults counters
    writer,                    \* SimplifiedCSVWriter: written_urls and the rows written
    outputs,                   \* the simplified and filename tables written at the end
    obs                        \* what the collaborators were asked: scrapes, downloads, calls

pipeVars == <<mode, tbl, disk, df, pc, runs, args, csv_results, rows_to_process, unique_pages, page_pos,
              page_data, row_pos, processed_images, processed_base_filenames, batch,
              batch_base_filenames, pending_variants, progress, writer, outputs, obs>>

vars == <<pure, pipeVars>>

(***************************************************************************)
(* Characters and text helpers (Python str methods used by the code).      *)
(***************************************************************************)
Digits == {"0", "1", "2", "3", "4", "5", "6", "7", "8", "9"}

UpperSeq == <<"A", "B", "C", "D", "E", "F", "G", "H", "I", "J", "K", "L", "M",
              "N", "O", "P", "Q", "R", "S", "T", "U", "V", "W", "X", "Y", "Z">>

LowerSeq == <<"a", "b", "c", "d", "e", "f", "g", "h", "i", "j", "k", "l", "m",
              "n", "o", "p", "q", "r", "s", "t", "u", "v", "w", "x", "y", "z">>

Letters == {UpperSeq[i] : i \in DOMAIN UpperSeq} \cup {LowerSeq[i] : i \in DOMAIN LowerSeq}

UpperChars == {UpperSeq[i] : i \in DOMAIN UpperSeq}

\* str.lower() on one character
LowerChar(c) ==
    IF c \in UpperChars
    THEN LowerSeq[CHOOSE i \in DOMAIN UpperSeq : UpperSeq[i] = c]
    ELSE c

\* str.lower()
StrLower(s) == SubSeq([i \in 1..Len(s) |-> LowerChar(s[i])], 1, Len(s))

\* pattern in s  (Python substring test); t is s, evaluated once
Contains(s, pat) ==
    \E t \in {s} :
        \E i \in 0..(Len(t) - Len(pat)) : \A j \in 1..Len(pat) : t[i + j] = pat[j]

\* s.endswith(suffix)
EndsWith(s, suffix) ==
    /\ Len(suffix) <= Len(s)
    /\ SubSeq(s, Len(s) - Len(suffix) + 1, Len(s)) = suffix

SetMin(S) == CHOOSE m \in S : \A k \in S : m <= k

SetMax(S) == CHOOSE m \in S : \A k \in S : m >= k

\* url.split('/')[-1]
AfterLastSlash(s) ==
    LET at == {i \in 1..Len(s) : s[i] = "/"}
    IN  IF at = {} THEN s ELSE SubSeq(s, SetMax(at) + 1, Len(s))

\* x.split('?')[0]
BeforeQuery(s) ==
    LET at == {i \in 1..Len(s) : s[i] = "?"}
    IN  IF at = {} THEN s ELSE SubSeq(s, 1, SetMin(at) - 1)

\* url.split('/')[-1].split('?')[0]
UrlFilename(url) == BeforeQuery(AfterLastSlash(url))

(***************************************************************************)
(* Regular expression pieces.  Every function returns positions in s.      *)
(***************************************************************************)
\* \d* from position i: the index just past the longest run of digits
DigitsEnd(s, i) ==
    LET stop == {k \in i..Len(s) : s[k] \notin Digits}
    IN  IF stop = {} THEN Len(s) + 1 ELSE SetMin(stop)

\* -\d+x\d+ at position i: the index just past the match, 0 when no match
SizeGroupEnd(s, i) ==
    LET a == DigitsEnd(s, i + 1)
        b == DigitsEnd(s, a + 1)
    IN  IF /\ i <= Len(s)
           /\ s[i] = "-"
           /\ a > i + 1
           /\ a <= Len(s)
           /\ s[a] = "x"
           /\ b > a + 1
        THEN b
        ELSE 0

\* (-\d+x\d+)+ at position i, greedy: the index just past the last group
RECURSIVE SizeGroupsEnd(_, _)
SizeGroupsEnd(s, i) ==
    IF SizeGroupEnd(s, i) = 0 THEN i ELSE SizeGroupsEnd(s, SizeGroupEnd(s, i))

\* re.sub(r'(-\d+x\d+)+', '', s) from position i on
RECURSIVE StripSizeGroups(_, _)
StripSizeGroups(s, i) ==
    IF i > Len(s) THEN <<>>
    ELSE IF SizeGroupEnd(s, i) # 0 THEN StripSizeGroups(s, SizeGroupsEnd(s, i))
    ELSE <<s[i]>> \o StripSizeGroups(s, i + 1)

\* (\.[a-zA-Z]+)$ at position k
IsExtAt(s, k) ==
    /\ k < Len(s)
    /\ k >= 1
    /\ s[k] = "."
    /\ \A j \in (k + 1)..Len(s) : s[j] \in Letters

\* re.sub(r'-\d+x\d+(\.[a-zA-Z]+)$', r'\1', s)
StripTrailingSizeGroup(s) ==
    LET at == {i \in 1..Len(s) : SizeGroupEnd(s, i) # 0 /\ IsExtAt(s, SizeGroupEnd(s, i))}
    IN  IF at = {} THEN s
        ELSE SubSeq(s, 1, SetMin(at) - 1) \o SubSeq(s, SizeGroupEnd(s, SetMin(at)), Len(s))

ScaledSuffix == <<"-", "s", "c", "a", "l", "e", "d">>

\* re.sub(r'-scaled(\.[a-zA-Z]+)$', r'\1', s)
StripTrailingScaled(s) ==
    LET at == {i \in 1..Len(s) :
                  /\ i + Len(ScaledSuffix) <= Len(s)
                  /\ SubSeq(s, i, i + Len(ScaledSuffix) - 1) = ScaledSuffix
                  /\ IsExtAt(s, i + Len(ScaledSuffix))}
    IN  IF at = {} THEN s
        ELSE SubSeq(s, 1, SetMin(at) - 1) \o SubSeq(s, SetMin(at) + Len(ScaledSuffix), Len(s))

(***************************************************************************)
(* Text constants of the code and of the modelled environment.             *)
(***************************************************************************)
\* "Duplicate of failed image"
MsgDuplicateOfFailed == <<"D", "u", "p", "l", "i", "c", "a", "t", "e", " ", "o", "f", " ", "f", "a", "i", "l", "e", "d", " ", "i", "m", "a", "g", "e">>

\* "Variant of failed image"
MsgVariantOfFailed == <<"V", "a", "r", "i", "a", "n", "t", " ", "o", "f", " ", "f", "a", "i", "l", "e", "d", " ", "i", "m", "a", "g", "e">>

\* "Image too large: "
MsgTooLargePrefix == <<"I", "m", "a", "g", "e", " ", "t", "o", "o", " ", "l", "a", "r", "g", "e", ":", " ">>

\* "MB (max 5MB)"
MsgMBSuffix == <<"M", "B", " ", "(", "m", "a", "x", " ", "5", "M", "B", ")">>

\* "px (max 8000x8000)"
MsgPxSuffix == <<"p", "x", " ", "(", "m", "a", "x", " ", "8", "0", "0", "0", "x", "8", "0", "0", "0", ")">>

\* "Scraping failed: "
MsgScrapingFailed == <<"S", "c", "r", "a", "p", "i", "n", "g", " ", "f", "a", "i", "l", "e", "d", ":", " ">>

\* "Image too large: exceeds 5MB file size limit"
MsgExceeds5MB == <<"I", "m", "a", "g", "e", " ", "t", "o", "o", " ", "l", "a", "r", "g", "e", ":", " ", "e", "x", "c", "e", "e", "d", "s", " ", "5", "M", "B", " ", "f", "i", "l", "e", " ", "s", "i", "z", "e", " ", "l", "i", "m", "i", "t">>

\* "Failed to download image"
MsgDownloadFailed == <<"F", "a", "i", "l", "e", "d", " ", "t", "o", " ", "d", "o", "w", "n", "l", "o", "a", "d", " ", "i", "m", "a", "g", "e">>

\* "Failed to process image file"
MsgFileFailed == <<"F", "a", "i", "l", "e", "d", " ", "t", "o", " ", "p", "r", "o", "c", "e", "s", "s", " ", "i", "m", "a", "g", "e", " ", "f", "i", "l", "e">>

\* "API error: "
MsgApiError == <<"A", "P", "I", " ", "e", "r", "r", "o", "r", ":", " ">>

\* "Failed to generate alt text"
MsgGenerateFailed == <<"F", "a", "i", "l", "e", "d", " ", "t", "o", " ", "g", "e", "n", "e", "r", "a", "t", "e", " ", "a", "l", "t", " ", "t", "e", "x", "t">>

\* "Batch processing error: "
MsgBatchError == <<"B", "a", "t", "c", "h", " ", "p", "r", "o", "c", "e", "s", "s", "i", "n", "g", " ", "e", "r", "r", "o", "r", ":", " ">>

\* "Timeout error"
ErrTimeout == <<"T", "i", "m", "e", "o", "u", "t", " ", "e", "r", "r", "o", "r">>

\* "Scraping error: "
ErrScrapingPrefix == <<"S", "c", "r", "a", "p", "i", "n", "g", " ", "e", "r", "r", "o", "r", ":", " ">>

\* "RetryError[ForbiddenError]"
ErrRetryForbidden == <<"R", "e", "t", "r", "y", "E", "r", "r", "o", "r", "[", "F", "o", "r", "b", "i", "d", "d", "e", "n", "E", "r", "r", "o", "r", "]">>

\* "RetryError[RateLimitError]"
ErrRetryRateLimit == <<"R", "e", "t", "r", "y", "E", "r", "r", "o", "r", "[", "R", "a", "t", "e", "L", "i", "m", "i", "t", "E", "r", "r", "o", "r", "]">>

\* "Failed to parse alt text from response"
ErrParse == <<"F", "a", "i", "l", "e", "d", " ", "t", "o", " ", "p", "a", "r", "s", "e", " ", "a", "l", "t", " ", "t", "e", "x", "t", " ", "f", "r", "o", "m", " ", "r", "e", "s", "p", "o", "n", "s", "e">>

\* "Connection error."
ErrApi == <<"C", "o", "n", "n", "e", "c", "t", "i", "o", "n", " ", "e", "r", "r", "o", "r", ".">>

\* "nan"
TextNan == <<"n", "a", "n">>

\* "Skipped: SVG icon"
MsgSvgSkip == <<"S", "k", "i", "p", "p", "e", "d", ":", " ", "S", "V", "G", " ", "i", "c", "o", "n">>

MsgAvatarSkip == <<"S", "k", "i", "p", "p", "e", "d", ":", " ", "A", "v", "a", "t", "a", "r", " ", "(", "g", "o", "o", "g", "l", "e", "u", "s", "e", "r", "c", "o", "n", "t", "e", "n", "t", ")">>

MsgTooLargeOpen == <<"I", "m", "a", "g", "e", " ", "t", "o", "o", " ", "l", "a", "r", "g", "e", " ", "(">>

MsgPixelsClose == <<" ", "p", "i", "x", "e", "l", "s", ")">>

MsgIconOpen == <<"S", "k", "i", "p", "p", "e", "d", ":", " ", "I", "c", "o", "n", "/", "t", "h", "u", "m", "b", "n", "a", "i", "l", " ", "(">>

MsgIconClose == <<"p", "x", ",", " ", "m", "i", "n", "i", "m", "u", "m", " ", "1", "0", "0", "x", "1", "0", "0", ")">>

MsgDownloadError == <<"D", "o", "w", "n", "l", "o", "a", "d", " ", "e", "r", "r", "o", "r", ":", " ">>

ErrUnpack == <<"c", "a", "n", "n", "o", "t", " ", "u", "n", "p", "a", "c", "k", " ", "n", "o", "n", "-", "i", "t", "e", "r", "a", "b", "l", "e", " ", "N", "o", "n", "e", "T", "y", "p", "e", " ", "o", "b", "j", "e", "c", "t">>

MsgError == <<"E", "r", "r", "o", "r", ":", " ">>

SvgSuffix == <<".", "s", "v", "g">>

PatGoogle == <<"g", "o", "o", "g", "l", "e", "u", "s", "e", "r", "c", "o", "n", "t", "e", "n", "t">>

\* the column labels of the frame, as texts
FrameColumns ==
    {<<"S", "o", "u", "r", "c", "e">>,
     <<"D", "e", "s", "t", "i", "n", "a", "t", "i", "o", "n">>,
     <<"S", "i", "z", "e", " ", "(", "B", "y", "t", "e", "s", ")">>,
     <<"t", "i", "t", "l", "e", " ", "t", "a", "g">>,
     <<"H", "1", " ", "t", "a", "g">>,
     <<"a", "d", "j", "a", "c", "e", "n", "t", " ", "t", "e", "x", "t">>,
     <<"m", "e", "s", "s", "a", "g", "e">>,
     <<"A", "L", "T", " ", "t", "e", "x", "t">>}

\* "A cat"
AltCat == <<"A", " ", "c", "a", "t">>

\* "A small cat"
AltCatSmall == <<"A", " ", "s", "m", "a", "l", "l", " ", "c", "a", "t">>

AltDog == <<"A", " ", "d", "o", "g">>

AltTooSmall == <<"T", "o", "o", " ", "S", "m", "a", "l", "l", " ", "s", "i", "g", "n">>

\* "skip"
PatSkip == <<"s", "k", "i", "p">>

\* "too small"
PatTooSmall == <<"t", "o", "o", " ", "s", "m", "a", "l", "l">>

\* "download error"
PatDownloadError == <<"d", "o", "w", "n", "l", "o", "a", "d", " ", "e", "r", "r", "o", "r">>

\* "error:"
PatError == <<"e", "r", "r", "o", "r", ":">>

\* "icon"
PatIcon == <<"i", "c", "o", "n">>

\* "thumbnail"
PatThumbnail == <<"t", "h", "u", "m", "b", "n", "a", "i", "l">>

\* "avatar"
PatAvatar == <<"a", "v", "a", "t", "a", "r">>

\* "a/p-30x30.j"
UrlPic30 == <<"a", "/", "p", "-", "3", "0", "x", "3", "0", ".", "j">>

\* "a/p-9x7.j"
UrlPic9 == <<"a", "/", "p", "-", "9", "x", "7", ".", "j">>

\* "a/p-1-9x7.j"
UrlPic1 == <<"a", "/", "p", "-", "1", "-", "9", "x", "7", ".", "j">>

\* "a/q.j"
UrlQ == <<"a", "/", "q", ".", "j">>

\* "T"
TitleT == <<"T">>

\* "H"
HeadH == <<"H">>

\* "c"
AdjC == <<"c">>


(***************************************************************************)
(* Canonicalization: the two implementations of extract_base_filename.     *)
(***************************************************************************)
\* generate_alt_text.py
extract_base_filename(url) == StripSizeGroups(UrlFilename(url), 1)

\* processor.py
processor_extract_base_filename(url) ==
    StripTrailingScaled(StripTrailingSizeGroup(UrlFilename(url)))

(***************************************************************************)
(* Filenames the canonicalization is exercised on:                         *)
(*   [dir/] stem [-n] (size or scaled suffix)* .ext [?query]               *)
(***************************************************************************)
MaxSuffixes == 2

Stems == {<<"p", "i", "c">>, <<"q">>}

NumericSuffixes == {<<>>, <<"-", "1">>}

SizeSuffixes == {<<"-", "3", "0", "0", "x", "3", "0", "0">>, <<"-", "9", "x", "7">>}

VariantSuffixes == SizeSuffixes \cup {ScaledSuffix}

Extension == <<".", "j", "p", "g">>

DirPrefixes == {<<>>, <<"a", "/">>}

QuerySuffixes == {<<>>, <<"?", "v">>}

RECURSIVE SuffixRuns(_)
SuffixRuns(n) ==
    IF n = 0 THEN {<<>>}
    ELSE SuffixRuns(n - 1) \cup {r \o v : r \in SuffixRuns(n - 1), v \in VariantSuffixes}

Plain(stem, num) == stem \o num \o Extension

CanonInputs ==
    {[url  |-> d \o st \o nu \o run \o Extension \o q,
      stem |-> st, num |-> nu, run |-> run] :
        d \in DirPrefixes, st \in Stems, nu \in NumericSuffixes,
        run \in SuffixRuns(MaxSuffixes), q \in QuerySuffixes}

(***************************************************************************)
(* Small helpers on sets, sequences and dictionaries.                      *)
(***************************************************************************)
RECURSIVE SortedSeq(_)
SortedSeq(S) == IF S = {} THEN <<>> ELSE <<SetMin(S)>> \o SortedSeq(S \ {SetMin(S)})

\* first occurrences, in order (pandas unique())
UniqueSeq(s) ==
    LET keep == SortedSeq({i \in 1..Len(s) : \A j \in 1..(i - 1) : s[j] # s[i]})
    IN  [k \in 1..Len(keep) |-> s[keep[k]]]

\* d[k] = v on a Python dict
Put(d, k, v) == [x \in (DOMAIN d) \cup {k} |-> IF x = k THEN v ELSE d[x]]

EmptyDict == <<>>

DigitChars == <<"0", "1", "2", "3", "4", "5", "6", "7", "8", "9">>

\* str(n) for n >= 0
RECURSIVE IntToStr(_)
IntToStr(n) ==
    IF n < 10 THEN <<DigitChars[n + 1]>>
    ELSE IntToStr(n \div 10) \o <<DigitChars[(n % 10) + 1]>>

\* f"{bytes / (1024 * 1024):.2f}"
FormatMB(bytes) ==
    LET h == (bytes * 100 + 524288) \div 1048576
    IN  IntToStr(h \div 100) \o <<".", DigitChars[((h \div 10) % 10) + 1], DigitChars[(h % 10) + 1]>>

\* characters in code point order, for sort_values on text
AsciiOrder == <<" ", "(", ")", "-", ".", "/">> \o DigitChars \o <<":", "?">> \o UpperSeq
              \o <<"[", "]">> \o LowerSeq

CharRank(c) == CHOOSE i \in DOMAIN AsciiOrder : AsciiOrder[i] = c

RECURSIVE TextLess(_, _)
TextLess(a, b) ==
    IF b = <<>> THEN FALSE
    ELSE IF a = <<>> THEN TRUE
    ELSE IF Head(a) = Head(b) THEN TextLess(Tail(a), Tail(b))
    ELSE CharRank(Head(a)) < CharRank(Head(b))

(***************************************************************************)
(* The row store: csv_handler.py.  A cell is a text, or NaN (pandas'       *)
(* missing value); the file holds texts only.                             *)
(***************************************************************************)
NaN == <<"NaN">>

None == <<"None">>

\* Python truthiness of an optional text
Truthy(v) == v # None /\ v # <<>>

\* str(value) of a cell
Str(v) == IF v = NaN THEN TextNan ELSE v

NEW_COLUMNS == {"title tag", "H1 tag", "adjacent text", "message", "ALT text"}

\* texts pandas.read_csv reads as missing
NaStrings == {<<>>, TextNan}

ReadCsvCell(t) == IF t \in NaStrings THEN NaN ELSE t

ToCsvCell(v) == IF v = NaN THEN <<>> ELSE v

\* CSVHandler.load: read_csv, then the output columns that are absent are added as ''
load(file) ==
    [i \in 1..Len(file.rows) |->
        [c \in NEW_COLUMNS |-> IF c \in file.cols THEN ReadCsvCell(file.rows[i][c]) ELSE <<>>]]

\* a save that writes the columns without the cells
save_blank(d) ==
    [cols |-> NEW_COLUMNS, rows |-> [i \in 1..Len(d) |-> [c \in NEW_COLUMNS |-> <<>>]]]

\* CSVHandler.save: to_csv of every column
save(d) ==
    [cols |-> NEW_COLUMNS,
     rows |-> [i \in 1..Len(d) |-> [c \in NEW_COLUMNS |-> ToCsvCell(d[i][c])]]]

\* CSVHandler.update_row(index, **kw)
update_row(d, index, kw) ==
    [d EXCEPT ![index] =
        [c \in NEW_COLUMNS |->
            IF c \in DOMAIN kw
            THEN (IF kw[c] = None \/ kw[c] = NaN THEN <<>> ELSE kw[c])
            ELSE @[c]]]

\* the rows without alt text, last row first
get_rows_reversed(d) ==
    LET todo == SortedSeq({i \in 1..Len(d) : d[i]["ALT text"] = NaN \/ d[i]["ALT text"] = <<>>})
    IN  [k \in 1..Len(todo) |-> todo[Len(todo) + 1 - k]]

\* every row of the table is selected: get_rows_to_process without its filter
get_all_rows(d) == SortedSeq(1..Len(d))

\* CSVHandler.get_rows_to_process: the index of the returned frame
get_rows_to_process(d) ==
    SortedSeq({i \in 1..Len(d) : d[i]["ALT text"] = NaN \/ d[i]["ALT text"] = <<>>})

\* CSVHandler.get_unique_pages
get_unique_pages(t, d) ==
    LET todo == get_rows_to_process(d)
    IN  UniqueSeq([k \in 1..Len(todo) |-> t[todo[k]].Source])

\* CSVHandler.get_images_for_page: the index of the returned frame
get_images_for_page(t, page_url) ==
    SortedSeq({i \in 1..Len(t) : t[i].Source = page_url})

(***************************************************************************)
(* Validity of an alt text for the deduplicated outputs.                   *)
(***************************************************************************)
\* is_valid_alt_text without the .lower() of the alt text
is_valid_alt_text_cased(alt_text) ==
    IF alt_text = NaN \/ alt_text = <<>> THEN FALSE
    ELSE ~ \E pattern \in {PatSkip, PatTooSmall} : Contains(Str(alt_text), pattern)

\* generate_alt_text.is_valid_alt_text
is_valid_alt_text(alt_text) ==
    IF alt_text = NaN \/ alt_text = <<>> THEN FALSE
    ELSE \A alt_lower \in {StrLower(Str(alt_text))} :
             ~ \E pattern \in {PatSkip, PatTooSmall} : Contains(alt_lower, pattern)

\* processor.is_valid_alt_text
processor_is_valid_alt_text(alt_text) ==
    IF alt_text = NaN \/ alt_text = <<>> THEN FALSE
    ELSE \A alt_lower \in {StrLower(Str(alt_text))} :
             ~ \E pattern \in {PatSkip, PatTooSmall, PatDownloadError, PatError, PatIcon,
                                 PatThumbnail, PatAvatar} :
                   Contains(alt_lower, pattern)

(***************************************************************************)
(* Cost estimate, in units of 0.00001 USD.                                 *)
(***************************************************************************)
\* AltTextGenerator.estimate_cost: per image (500 / 0.75 + 200) input tokens at
\* 3 USD per million and 50 output tokens at 15 USD per million = 0.00335 USD
COST_PER_IMAGE == 335

estimate_cost(num_images) == num_images * COST_PER_IMAGE

\* `max_cost and estimated_cost > max_cost`: a ceiling is <<>> (None) or <<n>>
CostCheckFails(max_cost, estimated_cost) ==
    /\ max_cost # <<>>
    /\ max_cost[1] # 0
    /\ estimated_cost > max_cost[1]

\* the estimate is above the ceiling the operator configured
OverCeiling(max_cost, estimated_cost) ==
    /\ max_cost # <<>>
    /\ estimated_cost > max_cost[1]

(***************************************************************************)
(* Bounds and the inputs of a run.                                         *)
(***************************************************************************)
MaxRows == 2

MaxRuns == 2

\* runs of process_csv_file over one file that are followed
MaxCsvRuns == 1

\* generate_alt_text.py: MAX_FILE_SIZE_BYTES; image_handler.py: MAX_FILE_SIZE_MB
MAX_FILE_SIZE_BYTES == 5 * 1024 * 1024

\* a batch size one image too long
BATCH_SIZE_off_by_one == 8 + 1

\* AltTextGenerator.BATCH_SIZE
BATCH_SIZE == 8

\* a row of the CSV: page, image URL, declared size (<<>>: no size cell)
Row(page, url, size) == [Source |-> page, Destination |-> url, Size |-> size]

\* the tables the runs are made on: one image; one image declared too large; one
\* image of a sign; two sizes of one image; one image on two pages; two images
Tables ==
    {<<Row("p1", UrlPic30, <<>>)>>,
     <<Row("p1", UrlQ, <<MAX_FILE_SIZE_BYTES + 1>>)>>,
     <<Row("p1", UrlQ, <<>>)>>,
     <<Row("p1", UrlPic30, <<>>), Row("p1", UrlPic9, <<>>)>>,
     <<Row("p1", UrlPic30, <<>>), Row("p2", UrlPic30, <<>>)>>,
     <<Row("p1", UrlPic30, <<>>), Row("p1", UrlPic1, <<>>)>>}

TablesUpTo(n) == {t \in Tables : Len(t) <= n}

\* --output: the runs of the CLI are made with the backup file requested
Outputs == {TRUE}

\* --max-cost / max_cost: <<>> is None, amounts in units of 0.00001 USD
Ceilings == {<<>>, <<500>>}

\* the same, and a ceiling of 0 and one no table reaches
MaxCosts == Ceilings \cup {<<0>>, <<100000>>}

\* what the page server answers, on every attempt of one fetch
PageContents ==
    {[title |-> TitleT, h1 |-> HeadH, adjacent |-> AdjC]}

HttpOutcomes ==
    {[status |-> 200, page |-> c] : c \in PageContents}
        \cup {[status |-> 403, page |-> <<>>], [status |-> 0, page |-> <<>>]}

\* what the image server answers: no content, or content of some size; readable
\* says whether get_image_base64 can read the file back, which it can of a file
\* download_image has just written
ImageOutcomes ==
    {[ok |-> FALSE, bytes |-> 0, width |-> 0, height |-> 0, readable |-> TRUE],
     [ok |-> TRUE, bytes |-> MAX_FILE_SIZE_BYTES + 1, width |-> 600, height |-> 400, readable |-> TRUE],
     [ok |-> TRUE, bytes |-> 1000, width |-> 8001, height |-> 600, readable |-> TRUE],
     [ok |-> TRUE, bytes |-> 1000, width |-> 2001, height |-> 600, readable |-> TRUE],
     [ok |-> TRUE, bytes |-> 1000, width |-> 2000, height |-> 600, readable |-> TRUE],
     [ok |-> TRUE, bytes |-> 1000, width |-> 600, height |-> 99, readable |-> TRUE]}

\* the text the vision model writes for an image
VisionText(url) ==
    IF url = UrlPic30 THEN AltCat
    ELSE IF url = UrlPic9 THEN AltCatSmall
    ELSE IF url = UrlPic1 THEN AltDog
    ELSE AltTooSmall

\* what the vision API answers to a call with the images b: rate limited on every
\* attempt, or a text with the line of some of the images.  Another API exception
\* (kind "api_error") gives every image an error, as a text without lines does
ApiReplies(b) ==
    {[kind |-> "rate_limit", alts |-> <<>>]}
        \cup {[kind |-> "text",
               alts |-> [i \in 1..Len(b) |-> IF i \in S THEN VisionText(b[i].image_url) ELSE None]] :
              S \in SUBSET (1..Len(b))}

\* the vision API is rate limited, or answers for every image, or for none
CapacityReplies(b) ==
    {r \in ApiReplies(b) :
        \/ r.kind = "rate_limit"
        \/ \A i \in 1..Len(b) : Truthy(r.alts[i])
        \/ \A i \in 1..Len(b) : ~Truthy(r.alts[i])}

\* the answers of the vision API an environment api allows to a call with b
Replies(api, b) == IF api = "uniform" THEN CapacityReplies(b) ELSE ApiReplies(b)

(***************************************************************************)
(* The collaborators, as their code computes: web_scraper.py,              *)
(* image_handler.py, alt_text_generator.py.                                *)
(***************************************************************************)
\* WebScraper._fetch_page under @retry(stop_after_attempt(3)): the function catches
\* every exception but ForbiddenError; tenacity retries on ForbiddenError and, the
\* attempts used up, raises RetryError (reraise is not set)
fetch_page(http) ==
    IF http.status = 403
        THEN [raised |-> "RetryError", ok |-> FALSE, error |-> ErrRetryForbidden]
    ELSE IF http.status = 200
        THEN [raised |-> "none", ok |-> TRUE, error |-> None]
    ELSE [raised |-> "none", ok |-> FALSE, error |-> ErrTimeout]

\* WebScraper.scrape_page
scrape_page(http, image_urls) ==
    LET f == fetch_page(http)
        failed(msg) ==
            [raised |-> "none",
             page_data |-> [title |-> <<>>, h1 |-> <<>>, error |-> msg],
             images |-> [u \in image_urls |-> [adjacent_text |-> <<>>, error |-> msg]]]
    IN  IF f.raised = "ForbiddenError"
            THEN [raised |-> "ForbiddenError", page_data |-> <<>>, images |-> <<>>]
        ELSE IF f.raised # "none"
            THEN failed(ErrScrapingPrefix \o f.error)
        ELSE IF Truthy(f.error) \/ ~f.ok
            THEN failed(f.error)
        ELSE [raised |-> "none",
              page_data |-> [title |-> http.page.title, h1 |-> http.page.h1, error |-> None],
              images |-> [u \in image_urls |->
                            [adjacent_text |-> http.page.adjacent, error |-> None]]]

\* ImageHandler.download_image: (local_path is not None, size_category, dimensions)
download_image(img) ==
    IF ~img.ok
        THEN [has_path |-> FALSE, size_category |-> "none", dimensions |-> <<>>]
    ELSE IF img.bytes > MAX_FILE_SIZE_BYTES
        THEN [has_path |-> FALSE, size_category |-> "too_large", dimensions |-> <<0, 0>>]
    ELSE LET max_dimension == IF img.width > img.height THEN img.width ELSE img.height
         IN  IF max_dimension > 8000
                 THEN [has_path |-> FALSE, size_category |-> "too_large",
                       dimensions |-> <<img.width, img.height>>]
             ELSE IF max_dimension > 2000
                 THEN [has_path |-> TRUE, size_category |-> "large",
                       dimensions |-> <<img.width, img.height>>]
             ELSE [has_path |-> TRUE, size_category |-> "normal",
                   dimensions |-> <<img.width, img.height>>]

\* AltTextGenerator.generate_batch under @retry(stop_after_attempt(3)), with
\* _parse_response: RateLimitError is re-raised, so tenacity ends in RetryError;
\* any other exception gives an error result for every image
generate_batch(image_data, reply) ==
    IF image_data = <<>>
        THEN [raised |-> FALSE, error |-> None, results |-> <<>>]
    ELSE IF reply.kind = "rate_limit"
        THEN [raised |-> TRUE, error |-> ErrRetryRateLimit, results |-> <<>>]
    ELSE IF reply.kind = "api_error"
        THEN [raised |-> FALSE, error |-> None,
              results |-> [i \in 1..Len(image_data) |->
                             [image_url |-> image_data[i].image_url,
                              alt_text |-> None, error |-> ErrApi]]]
    ELSE [raised |-> FALSE, error |-> None,
          results |-> [i \in 1..Len(image_data) |->
                         [image_url |-> image_data[i].image_url,
                          alt_text |-> reply.alts[i],
                          error |-> IF Truthy(reply.alts[i]) THEN None ELSE ErrParse]]]

(***************************************************************************)
(* Progress ledger and backup writer.                                      *)
(***************************************************************************)
\* ProgressTracker.__init__; row indices are 1-based here, so "no row yet" is 0
ProgressTracker(total_images) ==
    [total_images |-> total_images, processed_images |-> 0, skipped_images |-> 0,
     failed_images |-> 0, last_processed_index |-> 0]

\* ProgressTracker.update
progress_update(p, processed, skipped, failed, last_index) ==
    [p EXCEPT !.processed_images = @ + processed,
              !.skipped_images = @ + skipped,
              !.failed_images = @ + failed,
              !.last_processed_index = last_index]

\* The mutable objects a row's evaluation works on, as one record
Machine ==
    [df |-> df, progress |-> progress, processed_images |-> processed_images,
     processed_base_filenames |-> processed_base_filenames, writer |-> writer,
     simplified |-> outputs.simplified]

\* SimplifiedCSVWriter.write_row
write_row(m, image_url, alt_text) ==
    IF m.writer.on /\ image_url \notin m.writer.written_urls
    THEN [m EXCEPT !.simplified = IF is_valid_alt_text(alt_text)
                                  THEN Append(@, <<image_url, alt_text>>) ELSE @,
                   !.writer.written_urls = @ \cup {image_url}]
    ELSE m

(***************************************************************************)
(* generate_alt_text.py: process_batch and the resolution of the deferred  *)
(* variants, as functions on the Machine record.                           *)
(***************************************************************************)
\* one iteration of `for result in results` of process_batch
apply_result(m, b, result) ==
    LET hit == {i \in 1..Len(b) : b[i].image_url = result.image_url}
    IN  IF hit = {} THEN m
        ELSE LET img_data == b[SetMin(hit)]
                 idx == img_data.index
             IN  IF Truthy(result.error)
                 THEN [m EXCEPT
                         !.df = update_row(@, idx, "message" :> (MsgApiError \o result.error)),
                         !.progress = progress_update(@, 0, 0, 1, idx),
                         !.processed_images = Put(@, result.image_url, None)]
                 ELSE IF Truthy(result.alt_text)
                 THEN write_row(
                        [m EXCEPT
                           !.df = update_row(@, idx,
                                    ("ALT text" :> result.alt_text)
                                    @@ ("title tag" :> img_data.title)
                                    @@ ("H1 tag" :> img_data.h1)
                                    @@ ("adjacent text" :> img_data.adjacent_text)),
                           !.progress = progress_update(@, 1, 0, 0, idx),
                           !.processed_images = Put(@, result.image_url, result.alt_text),
                           !.processed_base_filenames =
                               Put(@, extract_base_filename(result.image_url), result.alt_text)],
                        result.image_url, result.alt_text)
                 ELSE [m EXCEPT
                         !.df = update_row(@, idx, "message" :> MsgGenerateFailed),
                         !.progress = progress_update(@, 0, 0, 1, idx),
                         !.processed_images = Put(@, result.image_url, None)]

RECURSIVE apply_results(_, _, _, _)
apply_results(m, b, results, k) ==
    IF k > Len(results) THEN m
    ELSE apply_results(apply_result(m, b, results[k]), b, results, k + 1)

\* the `except Exception` branch without the entry in processed_images
RECURSIVE fail_batch_uncached(_, _, _, _)
fail_batch_uncached(m, b, error, k) ==
    IF k > Len(b) THEN m
    ELSE fail_batch_uncached(
            [m EXCEPT
               !.df = update_row(@, b[k].index, "message" :> (MsgBatchError \o error)),
               !.progress = progress_update(@, 0, 0, 1, b[k].index)],
            b, error, k + 1)

\* the `except Exception` branch of process_batch
RECURSIVE fail_batch(_, _, _, _)
fail_batch(m, b, error, k) ==
    IF k > Len(b) THEN m
    ELSE fail_batch(
            [m EXCEPT
               !.df = update_row(@, b[k].index, "message" :> (MsgBatchError \o error)),
               !.progress = progress_update(@, 0, 0, 1, b[k].index),
               !.processed_images = Put(@, b[k].image_url, None)],
            b, error, k + 1)

\* process_batch(batch, indices, ...): indices[i] is batch[i].index
process_batch(m, b, reply) ==
    LET res == generate_batch(b, reply)
    IN  IF res.raised THEN fail_batch(m, b, res.error, 1)
        ELSE apply_results(m, b, res.results, 1)

\* `for variant in pending_variants` after a flush
RECURSIVE resolve_pending(_, _, _)
resolve_pending(m, pend, k) ==
    IF k > Len(pend) THEN m
    ELSE LET variant == pend[k]
             known == variant.base_filename \in DOMAIN m.processed_base_filenames
             alt_text == m.processed_base_filenames[variant.base_filename]
         IN  resolve_pending(
                 IF ~known THEN m
                 ELSE IF Truthy(alt_text)
                 THEN [m EXCEPT
                         !.df = update_row(@, variant.idx, "ALT text" :> alt_text),
                         !.progress = progress_update(@, 1, 0, 0, variant.idx),
                         !.processed_images = Put(@, variant.image_url, alt_text)]
                 ELSE [m EXCEPT
                         !.df = update_row(@, variant.idx, "message" :> MsgVariantOfFailed),
                         !.progress = progress_update(@, 0, 0, 1, variant.idx),
                         !.processed_images = Put(@, variant.image_url, None)],
                 pend, k + 1)

\* a flush: process_batch, then the pending variants
flush(m, b, pend, reply) == resolve_pending(process_batch(m, b, reply), pend, 1)

RECURSIVE SortedTexts(_)
SortedTexts(S) ==
    IF S = {} THEN <<>>
    ELSE LET least == CHOOSE x \in S : \A y \in S \ {x} : TextLess(x, y)
         IN  <<least>> \o SortedTexts(S \ {least})

\* generate_filename_csv: the rows of the filename table
generate_filename_csv(t, d) ==
    LET with_alt == {i \in 1..Len(d) : d[i]["ALT text"] # NaN /\ d[i]["ALT text"] # <<>>
                                       /\ is_valid_alt_text(d[i]["ALT text"])}
        Filename(i) == UrlFilename(t[i].Destination)
        first == {i \in with_alt : \A j \in with_alt : j < i => Filename(j) # Filename(i)}
        names == SortedTexts({Filename(i) : i \in first})
    IN  [k \in 1..Len(names) |->
            <<names[k], d[CHOOSE i \in first : Filename(i) = names[k]]["ALT text"]>>]

(***************************************************************************)
(* State before any run.                                                   *)
(***************************************************************************)
BlankRows(n) == [i \in 1..n |-> [c \in NEW_COLUMNS |-> <<>>]]

\* processor.ProcessingResults.__init__
NoResults == [total_processed |-> 0, total_skipped |-> 0, total_failed |-> 0]

NoObs == [scraped |-> <<>>, forbidden |-> <<>>, downloads |-> <<>>, calls |-> <<>>]

\* the locals of a run that has not started
FreshLocals ==
    /\ rows_to_process = <<>>
    /\ unique_pages = <<>>
    /\ page_pos = 1
    /\ page_data = EmptyDict
    /\ row_pos = 1
    /\ processed_images = EmptyDict
    /\ processed_base_filenames = EmptyDict
    /\ batch = <<>>
    /\ batch_base_filenames = EmptyDict
    /\ pending_variants = <<>>
    /\ progress = ProgressTracker(0)
    /\ writer = [on |-> FALSE, written_urls |-> {}]
    /\ obs = NoObs

NoPure == [op |-> "none", arg |-> <<>>, cli |-> <<>>, csv |-> <<>>]

\* a CSV file as exported (no output columns) or with empty output columns
InitPipeline(modes, tables) ==
    /\ mode \in modes
    /\ tbl \in tables
    /\ disk \in {[cols |-> c, rows |-> BlankRows(Len(tbl))] : c \in {{}, NEW_COLUMNS}}
    /\ df = <<>>
    /\ pc = "idle"
    /\ runs = <<>>
    /\ args = [restart |-> FALSE, over |-> FALSE, no_title |-> FALSE, confirmed |-> FALSE]
    /\ csv_results = NoResults
    /\ outputs = [simplified |-> <<>>, filenames |-> <<>>, original |-> <<>>]
    /\ FreshLocals

(***************************************************************************)
(* generate_alt_text.py: main, up to the call of process_images.           *)
(***************************************************************************)
\* the run that is going on, or the last one
\* the process exits: the locals of process_images and the writer are gone; the
\* table and the ledger are kept as the run left them
EndRun(reason) ==
    /\ runs' = [runs EXCEPT ![Len(runs)] = reason]
    /\ pc' = "idle"
    /\ rows_to_process' = <<>>
    /\ unique_pages' = <<>>
    /\ page_pos' = 1
    /\ page_data' = EmptyDict
    /\ row_pos' = 1
    /\ processed_images' = EmptyDict
    /\ processed_base_filenames' = EmptyDict
    /\ batch' = <<>>
    /\ batch_base_filenames' = EmptyDict
    /\ pending_variants' = <<>>
    /\ writer' = [on |-> FALSE, written_urls |-> {}]

\* '' in every output column of every row
ClearEveryColumn(d) == [i \in 1..Len(d) |-> [c \in NEW_COLUMNS |-> <<>>]]

\* `csv_handler.df['ALT text'] = ''`
ClearAltText(d) == [i \in 1..Len(d) |-> [d[i] EXCEPT !["ALT text"] = <<>>]]

existing_count(d) == Cardinality({i \in 1..Len(d) : d[i]["ALT text"] # NaN /\ d[i]["ALT text"] # <<>>})

\* main of either pipeline up to the first page: confirms says whether a restart
\* over existing alt text asks the operator, who answers response
StartRun(restart, confirms, response, max_cost, proceed, output) ==
    LET d0 == load(disk)
        asks == restart /\ confirms /\ existing_count(d0) > 0
        refused == asks /\ response # "DELETE ALL"
        clears == restart /\ ~refused /\ (asks \/ mode = "csv")
        d1 == IF clears THEN ClearAltText(d0) ELSE d0
        todo == get_rows_to_process(d1)
        estimated_cost == estimate_cost(Len(todo))
        end == IF refused THEN "restart_cancelled"
               ELSE IF Len(todo) = 0 THEN "nothing_to_do"
               ELSE IF CostCheckFails(max_cost, estimated_cost) THEN "cost_exceeded"
               ELSE IF proceed # "y" THEN "cancelled"
               ELSE "running"
        go == end = "running"
    IN  /\ df' = d1
        /\ disk' = IF clears THEN save(d1) ELSE disk
        /\ runs' = Append(runs, end)
        /\ args' = [restart |-> restart,
                    over |-> ~refused /\ Len(todo) > 0 /\ OverCeiling(max_cost, estimated_cost),
                    no_title |-> "title tag" \notin disk.cols,
                    confirmed |-> asks /\ response = "DELETE ALL"]
        /\ pc' = IF go THEN "scrape" ELSE "idle"
        /\ rows_to_process' = IF go THEN todo ELSE <<>>
        /\ unique_pages' = IF go THEN get_unique_pages(tbl, d1) ELSE <<>>
        /\ page_pos' = 1
        /\ page_data' = EmptyDict
        /\ row_pos' = 1
        /\ processed_images' = EmptyDict
        /\ processed_base_filenames' = EmptyDict
        /\ batch' = <<>>
        /\ batch_base_filenames' = EmptyDict
        /\ pending_variants' = <<>>
        /\ progress' = ProgressTracker(IF go THEN Len(todo) ELSE 0)
        /\ writer' = [on |-> go /\ output, written_urls |-> {}]
        /\ outputs' = IF go /\ output THEN [outputs EXCEPT !.simplified = <<>>] ELSE outputs
        /\ csv_results' = NoResults
        /\ obs' = NoObs
        /\ UNCHANGED <<pure, mode, tbl>>

\* --restart / restart: the flag is given when there is alt text to clear (without
\* any, main prints a note and goes on as it does without the flag)
Restarts(d) == IF existing_count(d) > 0 THEN BOOLEAN ELSE {FALSE}

\* main is started, with a ceiling of ceilings, while fewer than max_runs runs were
CliStartWith(ceilings, max_runs) ==
    /\ mode = "cli"
    /\ pc = "idle"
    /\ Len(runs) < max_runs
    /\ \E restart \in Restarts(load(disk)), response \in {"DELETE ALL", "no"},
          max_cost \in ceilings, proceed \in {"y", "n"}, output \in Outputs :
          StartRun(restart, TRUE, response, max_cost, proceed, output)

CliStart == CliStartWith(Ceilings, MaxRuns)

(***************************************************************************)
(* generate_alt_text.py: process_images, the page loop.                    *)
(***************************************************************************)
RECURSIVE update_rows(_, _, _, _)
update_rows(d, indices, kw, k) ==
    IF k > Len(indices) THEN d
    ELSE update_rows(update_row(d, indices[k], kw), indices, kw, k + 1)

\* page_data[page_url] of a page found already scraped
StoredPage(d, indices) ==
    LET first_row == d[indices[1]]
        urls == {tbl[indices[k]].Destination : k \in 1..Len(indices)}
        last(u) == SetMax({k \in 1..Len(indices) : tbl[indices[k]].Destination = u})
    IN  [raised |-> "none",
         page_data |-> [title |-> Str(first_row["title tag"]), h1 |-> Str(first_row["H1 tag"]),
                        error |-> None],
         images |-> [u \in urls |-> [adjacent_text |-> Str(d[indices[last(u)]]["adjacent text"]),
                                     error |-> None]]]

AfterPage ==
    /\ page_pos' = page_pos + 1
    /\ pc' = IF page_pos = Len(unique_pages) THEN "rows" ELSE "scrape"

\* the page is found already scraped: its context is read from the row store
CliPageStored ==
    /\ mode = "cli"
    /\ pc = "scrape"
    /\ LET page_url == unique_pages[page_pos]
           indices == get_images_for_page(tbl, page_url)
       IN  /\ df[indices[1]]["title tag"] # NaN
           /\ page_data' = Put(page_data, page_url, StoredPage(df, indices))
    /\ AfterPage
    /\ UNCHANGED <<pure, mode, tbl, args, csv_results, disk, df, runs, rows_to_process,
                   unique_pages, row_pos,
                   processed_images, processed_base_filenames, batch, batch_base_filenames,
                   pending_variants, progress, writer, outputs, obs>>

\* the page is scraped; main's ForbiddenError handler is the first branch
CliPageScrape ==
    /\ mode = "cli"
    /\ pc = "scrape"
    /\ LET page_url == unique_pages[page_pos]
           indices == get_images_for_page(tbl, page_url)
           image_urls == {tbl[indices[k]].Destination : k \in 1..Len(indices)}
       IN  /\ df[indices[1]]["title tag"] = NaN
           /\ \E http \in HttpOutcomes :
                LET result == scrape_page(http, image_urls)
                    seen == [obs EXCEPT !.scraped = Append(@, page_url),
                                        !.forbidden = IF http.status = 403
                                                      THEN Append(@, page_pos) ELSE @]
                    d1 == update_rows(df, indices,
                                      ("title tag" :> result.page_data.title)
                                      @@ ("H1 tag" :> result.page_data.h1), 1)
                IN  IF result.raised = "ForbiddenError"
                    THEN /\ disk' = save(df)
                         /\ obs' = seen
                         /\ EndRun("forbidden")
                         /\ UNCHANGED df
                    ELSE /\ page_data' = Put(page_data, page_url, result)
                         /\ df' = d1
                         /\ disk' = save(d1)
                         /\ obs' = seen
                         /\ AfterPage
                         /\ UNCHANGED <<runs, rows_to_process, unique_pages, row_pos,
                                        processed_images, processed_base_filenames, batch,
                                        batch_base_filenames, pending_variants, writer>>
    /\ UNCHANGED <<pure, mode, tbl, args, csv_results, progress, outputs>>

(***************************************************************************)
(* generate_alt_text.py: process_images, the row loop.  One action per     *)
(* way an iteration ends.                                                  *)
(***************************************************************************)
InRowLoop == pc = "rows" /\ row_pos <= Len(rows_to_process)

idx == rows_to_process[row_pos]

image_url == tbl[idx].Destination

source_url == tbl[idx].Source

base_filename == extract_base_filename(image_url)

\* page_data.get(source_url, {}) and its two parts
page_info ==
    IF source_url \in DOMAIN page_data THEN page_data[source_url].page_data
    ELSE [title |-> <<>>, h1 |-> <<>>, error |-> None]

image_info ==
    IF source_url \in DOMAIN page_data /\ image_url \in DOMAIN page_data[source_url].images
    THEN page_data[source_url].images[image_url]
    ELSE [adjacent_text |-> <<>>, error |-> None]

\* the test of processed_images left out
NeverDuplicate == FALSE

IsDuplicate == image_url \in DOMAIN processed_images

IsVariant == ~IsDuplicate /\ base_filename \in DOMAIN processed_base_filenames

\* the test of batch_base_filenames left out
NeverDeferred == FALSE

IsDeferred == ~IsDuplicate /\ ~IsVariant /\ base_filename \in DOMAIN batch_base_filenames

DeclaredTooLarge == tbl[idx].Size # <<>> /\ tbl[idx].Size[1] > MAX_FILE_SIZE_BYTES

\* the test of the scraping errors left out
ScrapeErrorUnseen == FALSE

HasScrapeError == Truthy(page_info.error) \/ Truthy(image_info.error)

\* the row reaches the size and context checks
Unseen == ~IsDuplicate /\ ~IsVariant /\ ~IsDeferred

\* download_image reached without the size and context checks
DownloadsUnchecked == Unseen

\* the row reaches download_image
Downloads == Unseen /\ ~DeclaredTooLarge /\ ~HasScrapeError

\* the end of an iteration: the objects as the iteration leaves them
NextRow(m, b, bbf, pend, dsk, o) ==
    /\ df' = m.df
    /\ progress' = m.progress
    /\ processed_images' = m.processed_images
    /\ processed_base_filenames' = m.processed_base_filenames
    /\ writer' = m.writer
    /\ outputs' = [outputs EXCEPT !.simplified = m.simplified]
    /\ batch' = b
    /\ batch_base_filenames' = bbf
    /\ pending_variants' = pend
    /\ disk' = dsk
    /\ obs' = o
    /\ row_pos' = row_pos + 1
    /\ UNCHANGED <<pure, mode, tbl, args, csv_results, pc, runs, rows_to_process, unique_pages,
                   page_pos,
                   page_data>>

\* an iteration that ends in `continue` with the row marked: message and ledger
Marked(m, message, skipped, failed) ==
    [m EXCEPT !.df = update_row(@, idx, "message" :> message),
              !.progress = progress_update(@, 0, skipped, failed, idx),
              !.processed_images = Put(@, image_url, None)]

\* the URL is in processed_images
CliRowDuplicate ==
    /\ mode = "cli" /\ InRowLoop /\ IsDuplicate
    /\ LET alt_text == processed_images[image_url]
           m == IF Truthy(alt_text)
                THEN [Machine EXCEPT !.df = update_row(@, idx, "ALT text" :> alt_text),
                                     !.progress = progress_update(@, 1, 0, 0, idx)]
                ELSE [Machine EXCEPT !.df = update_row(@, idx, "message" :> MsgDuplicateOfFailed),
                                     !.progress = progress_update(@, 0, 0, 1, idx)]
       IN  NextRow(m, batch, batch_base_filenames, pending_variants, disk, obs)

\* the base filename is in processed_base_filenames
CliRowVariant ==
    /\ mode = "cli" /\ InRowLoop /\ IsVariant
    /\ LET alt_text == processed_base_filenames[base_filename]
           m == IF Truthy(alt_text)
                THEN [Machine EXCEPT !.df = update_row(@, idx, "ALT text" :> alt_text),
                                     !.progress = progress_update(@, 1, 0, 0, idx),
                                     !.processed_images = Put(@, image_url, alt_text)]
                ELSE [Machine EXCEPT !.df = update_row(@, idx, "message" :> MsgVariantOfFailed),
                                     !.progress = progress_update(@, 0, 0, 1, idx),
                                     !.processed_images = Put(@, image_url, None)]
       IN  NextRow(m, batch, batch_base_filenames, pending_variants, disk, obs)

\* the base filename is in the open batch
CliRowDefer ==
    /\ mode = "cli" /\ InRowLoop /\ IsDeferred
    /\ NextRow(Machine, batch, batch_base_filenames,
               Append(pending_variants,
                      [idx |-> idx, image_url |-> image_url, base_filename |-> base_filename]),
               disk, obs)

\* the declared size is over the limit
CliRowDeclaredTooLarge ==
    /\ mode = "cli" /\ InRowLoop /\ Unseen /\ DeclaredTooLarge
    /\ NextRow(Marked(Machine, MsgTooLargePrefix \o FormatMB(tbl[idx].Size[1]) \o MsgMBSuffix, 1, 0),
               batch, batch_base_filenames, pending_variants, disk, obs)

\* the page or the image has a scraping error
CliRowScrapeError ==
    /\ mode = "cli" /\ InRowLoop /\ Unseen /\ ~DeclaredTooLarge /\ HasScrapeError
    /\ LET error_msg == IF Truthy(page_info.error) THEN page_info.error ELSE image_info.error
       IN  NextRow(Marked(Machine, MsgScrapingFailed \o error_msg, 0, 1),
                   batch, batch_base_filenames, pending_variants, disk, obs)

\* the download, the size on disk or the encoding rejects the image, the image
\* server answering with one of images
CliRowRejectedWith(images) ==
    /\ mode = "cli" /\ InRowLoop /\ Downloads
    /\ \E img \in images :
         LET got == download_image(img)
             seen == [obs EXCEPT !.downloads = Append(@, idx)]
             m == IF got.size_category = "too_large"
                  THEN Marked(Machine,
                              IF got.dimensions = <<0, 0>> THEN MsgExceeds5MB
                              ELSE MsgTooLargePrefix \o IntToStr(got.dimensions[1]) \o <<"x">>
                                   \o IntToStr(got.dimensions[2]) \o MsgPxSuffix,
                              1, 0)
                  ELSE IF ~got.has_path THEN Marked(Machine, MsgDownloadFailed, 0, 1)
                  ELSE IF img.bytes > MAX_FILE_SIZE_BYTES
                  THEN Marked(Machine, MsgTooLargePrefix \o FormatMB(img.bytes) \o MsgMBSuffix, 1, 0)
                  ELSE Marked(Machine, MsgFileFailed, 0, 1)
         IN  /\ got.size_category = "too_large" \/ ~got.has_path \/ ~img.readable
             /\ NextRow(m, batch, batch_base_filenames, pending_variants, disk, seen)

\* the entry of the batch for the row, image_base64 and media_type left out
BatchEntry(got) ==
    [title |-> page_info.title, h1 |-> page_info.h1, adjacent_text |-> image_info.adjacent_text,
     image_url |-> image_url, index |-> idx, size_category |-> got.size_category]

CliRowRejected == CliRowRejectedWith(ImageOutcomes)

\* a call of generate_batch as recorded: the rows it carries
Call(b) == [k \in 1..Len(b) |->
              [index |-> b[k].index, image_url |-> b[k].image_url,
               size_category |-> b[k].size_category]]

\* the image is admitted: it joins the batch, and the batch is flushed when it is
\* full or the image is large; the image server answers with one of images, the
\* vision API whose answers are Replies(api, b)
CliRowAdmitWith(images, api) ==
    /\ mode = "cli" /\ InRowLoop /\ Downloads
    /\ \E img \in images :
         LET got == download_image(img)
             seen == [obs EXCEPT !.downloads = Append(@, idx)]
             m0 == [Machine EXCEPT
                      !.df = update_row(@, idx, "adjacent text" :> image_info.adjacent_text)]
             b == Append(batch, BatchEntry(got))
             bbf == Put(batch_base_filenames, base_filename, image_url)
             should_process == Len(b) >= BATCH_SIZE \/ got.size_category = "large"
         IN  /\ got.has_path /\ got.size_category # "too_large" /\ img.readable
             /\ IF should_process
                THEN \E reply \in Replies(api, b) :
                       LET m1 == flush(m0, b, pending_variants, reply)
                       IN  NextRow(m1, <<>>, EmptyDict, <<>>, save(m1.df),
                                   [seen EXCEPT !.calls = Append(@, Call(b))])
                ELSE NextRow(m0, b, bbf, pending_variants, disk, seen)

CliRowAdmit == CliRowAdmitWith(ImageOutcomes, "any")

\* after the loop: the remaining batch, then main to its end
CliFinishWith(api) ==
    /\ mode = "cli" /\ pc = "rows" /\ row_pos > Len(rows_to_process)
    /\ \E reply \in Replies(api, batch) :
         LET m1 == IF batch # <<>> THEN flush(Machine, batch, pending_variants, reply) ELSE Machine
         IN  /\ batch = <<>> => reply.kind = "rate_limit"
             /\ df' = m1.df
             /\ progress' = m1.progress
             /\ outputs' = [outputs EXCEPT
                              !.simplified = m1.simplified,
                              !.filenames = IF writer.on THEN generate_filename_csv(tbl, m1.df)
                                            ELSE @]
             /\ disk' = IF batch # <<>> THEN save(m1.df) ELSE disk
             /\ obs' = IF batch # <<>> THEN [obs EXCEPT !.calls = Append(@, Call(batch))] ELSE obs
    /\ EndRun("done")
    /\ UNCHANGED <<pure, mode, tbl, args, csv_results>>

CliFinish == CliFinishWith("any")

\* Ctrl-C while process_images runs: main's KeyboardInterrupt handler
CliInterrupt ==
    /\ mode = "cli" /\ pc \in {"scrape", "rows"}
    /\ disk' = save(df)
    /\ EndRun("interrupted")
    /\ UNCHANGED <<pure, mode, tbl, args, csv_results, df, progress, outputs, obs>>

(***************************************************************************)
(* processor.py: process_csv_file, the pipeline behind the web page.       *)
(***************************************************************************)
\* process_csv_file is called, with a ceiling of ceilings, while fewer than max_runs
\* runs were; the restart asks nobody
CsvStartWith(ceilings, max_runs) ==
    /\ mode = "csv"
    /\ pc = "idle"
    /\ Len(runs) < max_runs
    /\ \E restart \in Restarts(load(disk)), max_cost \in ceilings :
          StartRun(restart, FALSE, "DELETE ALL", max_cost, "y", FALSE)

CsvStart == CsvStartWith(Ceilings, MaxCsvRuns)

\* the rows the page loop updates: df[df['Source'] == page_url].index
RECURSIVE csv_update_page(_, _, _, _)
csv_update_page(d, indices, result, k) ==
    IF k > Len(indices) THEN d
    ELSE LET url == tbl[indices[k]].Destination
             adjacent_text == IF url \in DOMAIN result.images
                              THEN result.images[url].adjacent_text ELSE <<>>
         IN  csv_update_page(
                 update_row(d, indices[k],
                            ("title tag" :> result.page_data.title)
                            @@ ("H1 tag" :> result.page_data.h1)
                            @@ ("adjacent text" :> adjacent_text)),
                 indices, result, k + 1)

\* a page is scraped; scrape_page is handed the frame of the page's rows, which
\* iterates as its column labels
CsvPageScrape ==
    /\ mode = "csv"
    /\ pc = "scrape"
    /\ LET page_url == unique_pages[page_pos]
           indices == get_images_for_page(tbl, page_url)
       IN  \E http \in HttpOutcomes :
             LET result == scrape_page(http, FrameColumns)
                 seen == [obs EXCEPT !.scraped = Append(@, page_url),
                                     !.forbidden = IF http.status = 403
                                                   THEN Append(@, page_pos) ELSE @]
                 d1 == csv_update_page(df, indices, result, 1)
             IN  IF result.raised = "ForbiddenError"
                 THEN /\ obs' = seen
                      /\ EndRun("forbidden")
                      /\ UNCHANGED <<df, disk>>
                 ELSE /\ df' = d1
                      /\ disk' = save(d1)
                      /\ obs' = seen
                      /\ AfterPage
                      /\ UNCHANGED <<runs, rows_to_process, unique_pages, page_data, row_pos,
                                     processed_images, processed_base_filenames, batch,
                                     batch_base_filenames, pending_variants, writer>>
    /\ UNCHANGED <<pure, mode, tbl, args, csv_results, progress, outputs>>

csv_base_filename == processor_extract_base_filename(image_url)

CsvIsDuplicate == image_url \in DOMAIN processed_images

CsvIsVariant == ~CsvIsDuplicate /\ csv_base_filename \in DOMAIN processed_images

IsSvg == EndsWith(StrLower(image_url), SvgSuffix)

IsAvatar == Contains(StrLower(image_url), PatGoogle)

\* `width < 100 or height < 100` of an image that was downloaded
IsIcon(got) ==
    /\ got.size_category \in {"normal", "large"}
    /\ got.dimensions[1] < 100 \/ got.dimensions[2] < 100

\* the objects of process_csv_file a row's evaluation works on
CsvMachine == [df |-> df, processed_images |-> processed_images, results |-> csv_results]

\* the end of an iteration of process_csv_file
CsvNextRow(m, b, dsk, prog, o) ==
    /\ df' = m.df
    /\ processed_images' = m.processed_images
    /\ csv_results' = m.results
    /\ batch' = b
    /\ disk' = dsk
    /\ progress' = prog
    /\ obs' = o
    /\ row_pos' = row_pos + 1
    /\ UNCHANGED <<pure, mode, tbl, args, pc, runs, rows_to_process, unique_pages, page_pos,
                   page_data, processed_base_filenames, batch_base_filenames,
                   pending_variants, writer, outputs>>

\* the URL is in processed_images
CsvRowDuplicate ==
    /\ mode = "csv" /\ InRowLoop /\ CsvIsDuplicate
    /\ CsvNextRow([CsvMachine EXCEPT
                     !.df = update_row(@, idx, "ALT text" :> processed_images[image_url]),
                     !.results.total_skipped = @ + 1],
                  batch, disk, progress, obs)

\* the base filename is in processed_images
CsvRowVariant ==
    /\ mode = "csv" /\ InRowLoop /\ CsvIsVariant
    /\ LET alt_text == processed_images[csv_base_filename]
       IN  CsvNextRow([CsvMachine EXCEPT
                         !.df = update_row(@, idx, "ALT text" :> alt_text),
                         !.processed_images = Put(@, image_url, alt_text),
                         !.results.total_skipped = @ + 1],
                      batch, disk, progress, obs)

\* the row is skipped by its URL, or the download rejects the image: a failed
\* download returns no dimensions, and unpacking them raises
CsvRowRejectedWith(images) ==
    /\ mode = "csv" /\ InRowLoop /\ ~CsvIsDuplicate /\ ~CsvIsVariant
    /\ \E img \in images :
         LET got == download_image(img)
             seen == [obs EXCEPT !.downloads = Append(@, idx)]
             skip(msg) == [CsvMachine EXCEPT !.df = update_row(@, idx, "ALT text" :> msg),
                                             !.results.total_skipped = @ + 1]
             fail(msg) == [CsvMachine EXCEPT !.df = update_row(@, idx, "ALT text" :> msg),
                                             !.results.total_failed = @ + 1]
             px(open, dims, close) ==
                 open \o IntToStr(dims[1]) \o <<"x">> \o IntToStr(dims[2]) \o close
         IN  IF IsSvg THEN CsvNextRow(skip(MsgSvgSkip), batch, disk, progress, obs)
             ELSE IF IsAvatar THEN CsvNextRow(skip(MsgAvatarSkip), batch, disk, progress, obs)
             ELSE /\ got.size_category \in {"too_large", "none"} \/ IsIcon(got)
                  /\ CsvNextRow(
                        IF got.size_category = "too_large"
                            THEN skip(px(MsgTooLargeOpen, got.dimensions, MsgPixelsClose))
                        ELSE IF got.size_category = "none"
                            THEN fail(MsgDownloadError \o ErrUnpack)
                        ELSE skip(px(MsgIconOpen, got.dimensions, MsgIconClose)),
                        batch, disk, progress, seen)

CsvRowRejected == CsvRowRejectedWith(ImageOutcomes)

\* one iteration of `for i, result in enumerate(alt_text_results)`
csv_apply_result(m, b, i, result) ==
    IF Truthy(result.error)
    THEN [m EXCEPT !.df = update_row(@, b[i].index, "ALT text" :> (MsgError \o result.error)),
                   !.results.total_failed = @ + 1]
    ELSE [m EXCEPT !.df = update_row(@, b[i].index, "ALT text" :> result.alt_text),
                   !.processed_images =
                       Put(Put(@, b[i].image_url, result.alt_text),
                           b[i].base_filename, result.alt_text),
                   !.results.total_processed = @ + 1]

RECURSIVE csv_apply_results(_, _, _, _)
csv_apply_results(m, b, alt_text_results, i) ==
    IF i > Len(alt_text_results) THEN m
    ELSE csv_apply_results(csv_apply_result(m, b, i, alt_text_results[i]),
                           b, alt_text_results, i + 1)

\* the `except Exception` branch around generate_batch
RECURSIVE csv_fail_batch(_, _, _, _)
csv_fail_batch(m, b, error_msg, i) ==
    IF i > Len(b) THEN m
    ELSE csv_fail_batch(
            [m EXCEPT !.df = update_row(@, b[i].index, "ALT text" :> error_msg),
                      !.results.total_failed = @ + 1],
            b, error_msg, i + 1)

\* the batch is processed: the objects after it, and whether the table was saved
csv_flush(m, b, reply) ==
    LET res == generate_batch(b, reply)
    IN  IF res.raised
        THEN [m |-> csv_fail_batch(m, b, MsgApiError \o res.error, 1), saved |-> FALSE]
        ELSE [m |-> csv_apply_results(m, b, res.results, 1), saved |-> TRUE]

\* the entry of the batch for the row; index is batch_rows[i]
CsvBatchEntry(got) ==
    [image_url |-> image_url, base_filename |-> csv_base_filename,
     title |-> df[idx]["title tag"], h1 |-> df[idx]["H1 tag"],
     adjacent_text |-> df[idx]["adjacent text"], index |-> idx,
     size_category |-> got.size_category]

\* the image joins the batch, and the batch is processed when it has batch_size
\* entries: 1 when the image is large, else 8
CsvRowAdmitWith(images, api) ==
    /\ mode = "csv" /\ InRowLoop /\ ~CsvIsDuplicate /\ ~CsvIsVariant /\ ~IsSvg /\ ~IsAvatar
    /\ \E img \in images :
         LET got == download_image(img)
             seen == [obs EXCEPT !.downloads = Append(@, idx)]
             b == Append(batch, CsvBatchEntry(got))
             batch_size == IF got.size_category = "large" THEN 1 ELSE BATCH_SIZE
         IN  /\ got.size_category \in {"normal", "large"}
             /\ ~IsIcon(got)
             /\ IF Len(b) >= batch_size
                THEN \E reply \in Replies(api, b) :
                       LET f == csv_flush(CsvMachine, b, reply)
                       IN  CsvNextRow(f.m, <<>>,
                                      IF f.saved THEN save(f.m.df) ELSE disk,
                                      progress_update(progress, f.m.results.total_processed,
                                                      f.m.results.total_skipped,
                                                      f.m.results.total_failed,
                                                      progress.last_processed_index),
                                      [seen EXCEPT !.calls = Append(@, Call(b))])
                ELSE CsvNextRow(CsvMachine, b, disk, progress, seen)

CsvRowAdmit == CsvRowAdmitWith(ImageOutcomes, "any")

\* the simplified table of process_csv_file
RECURSIVE csv_simplified(_, _, _)
csv_simplified(d, acc, k) ==
    IF k > Len(d) THEN acc
    ELSE csv_simplified(
            d,
            IF /\ processor_is_valid_alt_text(d[k]["ALT text"])
               /\ \A j \in 1..Len(acc) : acc[j][1] # tbl[k].Destination
            THEN Append(acc, <<tbl[k].Destination, d[k]["ALT text"]>>) ELSE acc,
            k + 1)

\* after the loop: the remaining batch, then the three output files
CsvFinishWith(api) ==
    /\ mode = "csv" /\ pc = "rows" /\ row_pos > Len(rows_to_process)
    /\ \E reply \in Replies(api, batch) :
       \E f \in {IF batch # <<>> THEN csv_flush(CsvMachine, batch, reply)
                  ELSE [m |-> CsvMachine, saved |-> FALSE]} :
         LET simplified_data == csv_simplified(f.m.df, <<>>, 1)
         IN  /\ batch = <<>> => reply.kind = "rate_limit"
             /\ df' = f.m.df
             /\ csv_results' = f.m.results
             /\ disk' = IF f.saved THEN save(f.m.df) ELSE disk
             /\ outputs' = [original |-> save(f.m.df),
                            simplified |-> simplified_data,
                            filenames |-> [k \in 1..Len(simplified_data) |->
                                             <<UrlFilename(simplified_data[k][1]),
                                               simplified_data[k][2]>>]]
             /\ obs' = IF batch # <<>> THEN [obs EXCEPT !.calls = Append(@, Call(batch))] ELSE obs
    /\ EndRun("done")
    /\ UNCHANGED <<pure, mode, tbl, args, progress>>

CsvFinish == CsvFinishWith("any")

Init ==
    /\ pure = NoPure
    /\ InitPipeline({"cli", "csv"}, TablesUpTo(MaxRows))

Next ==
    \/ CliStart
    \/ CliPageStored
    \/ CliPageScrape
    \/ CliRowDuplicate
    \/ CliRowVariant
    \/ CliRowDefer
    \/ CliRowDeclaredTooLarge
    \/ CliRowScrapeError
    \/ CliRowRejected
    \/ CliRowAdmit
    \/ CliFinish
    \/ CliInterrupt
    \/ CsvStart
    \/ CsvPageScrape
    \/ CsvRowDuplicate
    \/ CsvRowVariant
    \/ CsvRowRejected
    \/ CsvRowAdmit
    \/ CsvFinish

Spec == Init /\ [][Next]_vars

(***************************************************************************)
(* The canonicalization on its own: a filename is chosen, then both        *)
(* implementations are applied to it.                                      *)
(***************************************************************************)
\* no file is being processed
NoPipeline == InitPipeline({"none"}, {<<>>})

InitCanon ==
    /\ pure \in {[op |-> "input", arg |-> u, cli |-> <<>>, csv |-> <<>>] : u \in CanonInputs}
    /\ NoPipeline

ApplyCanon ==
    /\ pure.op = "input"
    /\ pure' = [pure EXCEPT !.op = "applied",
                            !.cli = extract_base_filename(pure.arg.url),
                            !.csv = processor_extract_base_filename(pure.arg.url)]
    /\ UNCHANGED pipeVars

NextCanon == ApplyCanon

SpecCanon == InitCanon /\ [][NextCanon]_vars

(***************************************************************************)
(* process_images on tables of images that are all admitted: one page, n   *)
(* images with n different names, each of normal size.                     *)
(***************************************************************************)
MaxCapacityRows == 17

CapacityUrl(i) == <<"a", "/", "n">> \o IntToStr(i) \o Extension

CapacityTable(n) == [i \in 1..n |-> Row("p1", CapacityUrl(i), <<>>)]

CapacityTables == {CapacityTable(n) : n \in 1..MaxCapacityRows}

\* the image server answers with an image of normal size
NormalImages == {img \in ImageOutcomes : download_image(img).size_category = "normal"}

InitCapacity ==
    /\ pure = NoPure
    /\ InitPipeline({"cli"}, CapacityTables)

NextCapacity ==
    \/ CliStartWith({<<>>}, 1)
    \/ CliPageStored
    \/ CliPageScrape
    \/ CliRowScrapeError
    \/ CliRowAdmitWith(NormalImages, "uniform")
    \/ CliFinishWith("uniform")
    \/ CliInterrupt

SpecCapacity == InitCapacity /\ [][NextCapacity]_vars

(***************************************************************************)
(* One run of either pipeline under every ceiling of MaxCosts.             *)
(***************************************************************************)
NextCost ==
    \/ CliStartWith(MaxCosts, 1)
    \/ CliPageStored
    \/ CliPageScrape
    \/ CliRowDuplicate
    \/ CliRowVariant
    \/ CliRowDefer
    \/ CliRowDeclaredTooLarge
    \/ CliRowScrapeError
    \/ CliRowRejected
    \/ CliRowAdmit
    \/ CliFinish
    \/ CliInterrupt
    \/ CsvStartWith(MaxCosts, 1)
    \/ CsvPageScrape
    \/ CsvRowDuplicate
    \/ CsvRowVariant
    \/ CsvRowRejected
    \/ CsvRowAdmit
    \/ CsvFinish

SpecCost == Init /\ [][NextCost]_vars

(***************************************************************************)
(* Properties.                                                             *)
(***************************************************************************)
\* a cell that holds a text
Filled(v) == v # NaN /\ v # <<>>

\* the run that is going on, or the last one
LastRun == IF runs = <<>> THEN "none" ELSE runs[Len(runs)]

\* a run of the CLI has gone through process_images to the end of main
CliDone == mode = "cli" /\ pc = "idle" /\ LastRun = "done"

\* the rows of the calls of generate_batch of the run, as <<call, position>>
Submissions == UNION {{<<c, k>> : k \in 1..Len(obs.calls[c])} : c \in 1..Len(obs.calls)}

Submitted(s) == obs.calls[s[1]][s[2]]

\* C1: after a completed first run of the CLI, a second run without restart makes
\* no generate_batch call
C1_SecondRunMakesNoCall ==
    (/\ mode = "cli"
     /\ Len(runs) = 2
     /\ runs[1] = "done"
     /\ ~args.restart) => obs.calls = <<>>

\* C2: when a run of the CLI has completed, every row that was rejected or failed
\* (it carries a status message) has a non-empty alt text, and the next run's
\* get_rows_to_process does not return it
C2_FailedRowsHaveAltText ==
    CliDone =>
        \A i \in 1..Len(df) :
            Filled(df[i]["message"]) =>
                /\ Filled(df[i]["ALT text"])
                /\ \A k \in 1..Len(get_rows_to_process(load(disk))) :
                       get_rows_to_process(load(disk))[k] # i

\* C3: within a run of process_images, at most one row of a base filename is in
\* the calls of generate_batch
C3_OneSubmissionPerBaseFilename ==
    mode = "cli" =>
        \A s, t \in Submissions :
            extract_base_filename(Submitted(s).image_url)
                = extract_base_filename(Submitted(t).image_url) => s = t

\* C4: when a run of the CLI has completed, any two rows whose image URLs have the
\* same base filename carry the same alt text
C4_SameBaseSameAltText ==
    CliDone =>
        \A i, j \in 1..Len(df) :
            extract_base_filename(tbl[i].Destination) = extract_base_filename(tbl[j].Destination)
                => ToCsvCell(df[i]["ALT text"]) = ToCsvCell(df[j]["ALT text"])

\* C5: both implementations of extract_base_filename strip one trailing size
\* suffix or -scaled suffix before the extension and keep the numeric suffix
C5_TrailingSuffixStripped ==
    (pure.op = "applied" /\ pure.arg.run \in VariantSuffixes) =>
        /\ pure.cli = Plain(pure.arg.stem, pure.arg.num)
        /\ pure.csv = Plain(pure.arg.stem, pure.arg.num)

\* C6: no call of generate_batch carries more than 8 images or none; when
\* process_images has returned, the n admitted rows were sent in ceil(n / 8)
\* calls, each but the last of 8 images
C6_BatchCapacity ==
    LET n == Len(obs.downloads)
        calls == obs.calls
    IN  /\ \A c \in 1..Len(calls) : Len(calls[c]) >= 1 /\ Len(calls[c]) <= 8
        /\ CliDone =>
              /\ Len(calls) = (n + 7) \div 8
              /\ \A c \in 1..(Len(calls) - 1) : Len(calls[c]) = 8

\* 17 rows were admitted and sent as 8, 8, 1
C6_Witness ==
    /\ CliDone
    /\ Len(obs.downloads) = 17
    /\ Len(obs.calls) = 3
    /\ Len(obs.calls[1]) = 8 /\ Len(obs.calls[2]) = 8 /\ Len(obs.calls[3]) = 1

\* C7: a large image is in a call of generate_batch of exactly one image
C7_LargeImageAlone ==
    \A c \in 1..Len(obs.calls) :
        (\E k \in 1..Len(obs.calls[c]) : obs.calls[c][k].size_category = "large")
            => Len(obs.calls[c]) = 1

\* C8: a run whose estimate is above the configured ceiling scrapes no page,
\* downloads no image and makes no generate_batch call
C8_OverCeilingDoesNothing ==
    args.over =>
        /\ obs.scraped = <<>>
        /\ obs.downloads = <<>>
        /\ obs.calls = <<>>

\* C9: in a run of the CLI, once a page has answered 403 Forbidden no later page is
\* scraped, no image is downloaded and no generate_batch call is made
C9_ForbiddenAborts ==
    (mode = "cli" /\ obs.forbidden # <<>>) =>
        /\ Len(obs.scraped) <= obs.forbidden[1]
        /\ obs.downloads = <<>>
        /\ obs.calls = <<>>

\* the alt text says "too small", in any letter case
SaysTooSmall(v) == Filled(v) /\ Contains(StrLower(Str(v)), PatTooSmall)

\* C10: no row of the deduplicated URL table or of the filename table, of either
\* pipeline, has an alt text that says "too small"; the full table keeps the rows,
\* and the copy of it process_csv_file writes keeps their alt text
C10_TooSmallExcluded ==
    /\ \A k \in 1..Len(outputs.simplified) : ~SaysTooSmall(outputs.simplified[k][2])
    /\ \A k \in 1..Len(outputs.filenames) : ~SaysTooSmall(outputs.filenames[k][2])
    /\ df # <<>> => Len(df) = Len(tbl)
    /\ (mode = "csv" /\ pc = "idle" /\ LastRun = "done") =>
          /\ Len(outputs.original.rows) = Len(tbl)
          /\ \A i \in 1..Len(df) :
                 outputs.original.rows[i]["ALT text"] = ToCsvCell(df[i]["ALT text"])

\* a run has completed with a row whose alt text says "too small", and the
\* output tables were written without it
C10_Witness ==
    /\ pc = "idle" /\ LastRun = "done"
    /\ \E i \in 1..Len(df) : SaysTooSmall(df[i]["ALT text"])
    /\ outputs.simplified = <<>>
    /\ outputs.filenames = <<>>

\* s begins with pre  (Python str.startswith)
StartsWith(s, pre) == Len(s) >= Len(pre) /\ SubSeq(s, 1, Len(pre)) = pre

\* "Skipped: "
PrefixSkipped == <<"S", "k", "i", "p", "p", "e", "d", ":", " ">>

\* "Image too large"
PrefixTooLarge == <<"I", "m", "a", "g", "e", " ", "t", "o", "o", " ", "l", "a", "r", "g", "e">>

\* v is one of the texts process_csv_file writes for a row it skipped or failed
IsStatusText(v) ==
    /\ Filled(v)
    /\ \E pre \in {PrefixSkipped, PrefixTooLarge, MsgDownloadError, MsgError, MsgApiError} :
           StartsWith(Str(v), pre)

\* C11: no row of the deduplicated URL table or of the filename table written by
\* process_csv_file carries a status text of a skipped or failed row
C11_StatusTextsExcluded ==
    mode = "csv" =>
        /\ \A k \in 1..Len(outputs.simplified) : ~IsStatusText(outputs.simplified[k][2])
        /\ \A k \in 1..Len(outputs.filenames) : ~IsStatusText(outputs.filenames[k][2])

(***************************************************************************)
(* CSVHandler.load on its own: a file with any of the columns is chosen,   *)
(* then loaded.                                                            *)
(***************************************************************************)
REQUIRED_COLUMNS == {"Source", "Destination"}

MaxLoadRows == 2

\* the texts of the cells of a file
CellTexts == {<<>>, AltCat, TextNan}

\* a file: some of the columns, and rows that hold one text in every cell
LoadFiles ==
    {[cols |-> c, rows |-> r] :
        c \in SUBSET (REQUIRED_COLUMNS \cup NEW_COLUMNS),
        r \in UNION {[1..n -> CellTexts] : n \in 0..MaxLoadRows}}

\* the text of the cell of row i, column c of a file
FileCell(file, i, c) == file.rows[i]

\* CSVHandler.load that adds every output column, those of the file included
load_overwriting(file) ==
    IF ~(REQUIRED_COLUMNS \subseteq file.cols)
    THEN [raised |-> "ValueError", df |-> None]
    ELSE [raised |-> "none",
          df |-> [i \in 1..Len(file.rows) |->
                    [c \in file.cols \cup NEW_COLUMNS |->
                        IF c \in NEW_COLUMNS THEN <<>> ELSE ReadCsvCell(FileCell(file, i, c))]]]

\* CSVHandler.load, with the check of the required columns and every column of the
\* file in the frame
CSVHandler_load(file) ==
    IF ~(REQUIRED_COLUMNS \subseteq file.cols)
    THEN [raised |-> "ValueError", df |-> None]
    ELSE [raised |-> "none",
          df |-> [i \in 1..Len(file.rows) |->
                    [c \in file.cols \cup NEW_COLUMNS |->
                        IF c \in file.cols THEN ReadCsvCell(FileCell(file, i, c)) ELSE <<>>]]]

InitLoad ==
    /\ pure \in {[op |-> "file", arg |-> f, out |-> <<>>] : f \in LoadFiles}
    /\ NoPipeline

ApplyLoad ==
    /\ pure.op = "file"
    /\ pure' = [pure EXCEPT !.op = "loaded", !.out = CSVHandler_load(pure.arg)]
    /\ UNCHANGED pipeVars

NextLoad == ApplyLoad

SpecLoad == InitLoad /\ [][NextLoad]_vars

Range(s) == {s[k] : k \in 1..Len(s)}

\* a step of a run of the CLI without restart: the run starts with no row that has
\* alt text among the rows to process; later steps leave the alt text and the
\* message of every other row as they are, and download and submit only rows to
\* process
ResumeFrameStep ==
    (mode = "cli" /\ ~args'.restart) =>
        /\ (pc = "idle" /\ pc' # "idle") =>
              \A i \in 1..Len(df') : Filled(df'[i]["ALT text"]) => i \notin Range(rows_to_process')
        /\ pc # "idle" =>
              /\ \A i \in (1..Len(df)) \ Range(rows_to_process) :
                    /\ df'[i]["ALT text"] = df[i]["ALT text"]
                    /\ df'[i]["message"] = df[i]["message"]
              /\ Range(obs'.downloads) \subseteq Range(rows_to_process)
              /\ \A c \in 1..Len(obs'.calls) :
                    \A k \in 1..Len(obs'.calls[c]) :
                        obs'.calls[c][k].index \in Range(rows_to_process)

\* C13: in a run of the CLI without restart, a row that has alt text when the table
\* is loaded is never downloaded nor submitted, and its alt text and message stay
\* as loaded; alt text is written to rows of get_rows_to_process only
C13_ResumeFrame == [][ResumeFrameStep]_vars

\* a second run without restart, over a table with a finished row, has submitted
\* another row
C13_Witness ==
    /\ mode = "cli" /\ Len(runs) = 2 /\ ~args.restart /\ pc = "rows"
    /\ \E i \in 1..Len(df) : Filled(df[i]["ALT text"]) /\ i \notin Range(rows_to_process)
    /\ obs.calls # <<>>

\* C14: in a run of the CLI over a file that had no title column, when the page loop
\* is over the scraper was called once for each page with a row to process, in order
C14_FirstRunScrapesEachPage ==
    (mode = "cli" /\ args.no_title /\ pc = "rows") => obs.scraped = unique_pages

\* a step of the page loop of process_images: no page is scraped twice; a page whose
\* first row has a title in the row store is not scraped, and the context kept for
\* its rows is the stored title, heading and adjacent text (an empty cell is no text)
PageReuseStep ==
    mode = "cli" =>
        /\ \A a, b \in 1..Len(obs'.scraped) : obs'.scraped[a] = obs'.scraped[b] => a = b
        /\ pc = "scrape" =>
              LET page_url == unique_pages[page_pos]
                  indices == get_images_for_page(tbl, page_url)
                  first_row == df[indices[1]]
                  alone(k) == \A j \in 1..Len(indices) :
                                  tbl[indices[j]].Destination = tbl[indices[k]].Destination => j = k
              IN  first_row["title tag"] # NaN =>
                    /\ obs'.scraped = obs.scraped
                    /\ pc' # "idle" =>
                          /\ page_data'[page_url].page_data.title = ToCsvCell(first_row["title tag"])
                          /\ page_data'[page_url].page_data.h1 = ToCsvCell(first_row["H1 tag"])
                          /\ \A k \in 1..Len(indices) :
                                alone(k) =>
                                    page_data'[page_url].images[tbl[indices[k]].Destination].adjacent_text
                                        = ToCsvCell(df[indices[k]]["adjacent text"])

\* C15: in process_images a page whose first row has a title in the row store is not
\* passed to scrape_page, its stored title, heading and adjacent texts are the
\* context of its rows, and no page is passed to scrape_page twice in a run
C15_PageContextReuse == [][PageReuseStep]_vars

(***************************************************************************)
(* Two runs of either pipeline on the tables of one row: the second run    *)
(* may be a restart.                                                       *)
(***************************************************************************)
MaxRestartRows == 1

MaxRestartRuns == 2

InitRestart ==
    /\ pure = NoPure
    /\ InitPipeline({"cli", "csv"}, TablesUpTo(MaxRestartRows))

NextRestart ==
    \/ CliStartWith(Ceilings, MaxRestartRuns)
    \/ CliPageStored
    \/ CliPageScrape
    \/ CliRowDeclaredTooLarge
    \/ CliRowScrapeError
    \/ CliRowRejected
    \/ CliRowAdmit
    \/ CliFinish
    \/ CliInterrupt
    \/ CsvStartWith(Ceilings, MaxRestartRuns)
    \/ CsvPageScrape
    \/ CsvRowRejected
    \/ CsvRowAdmit
    \/ CsvFinish

SpecRestart == InitRestart /\ [][NextRestart]_vars

\* the step is the start of a run that restarts: the restart flag is given and the
\* operator, if asked, did not refuse
RestartStep == pc = "idle" /\ Len(runs') > Len(runs) /\ args'.restart /\ LastRun' # "restart_cancelled"

\* a restart leaves every row with '' as alt text and the other output columns as
\* loaded from the file, and every row is a row to process
RestartFrameStep ==
    RestartStep =>
        /\ Len(df') = Len(tbl)
        /\ \A i \in 1..Len(df') :
              /\ df'[i]["ALT text"] = <<>>
              /\ \A c \in NEW_COLUMNS \ {"ALT text"} : df'[i][c] = load(disk)[i][c]
        /\ get_rows_to_process(df') = [i \in 1..Len(tbl) |-> i]

\* C16: a restart of either pipeline empties the alt text of every row and leaves
\* the title, heading, adjacent text and message of every row as they were, so that
\* every row is returned by get_rows_to_process
C16_RestartFrame == [][RestartFrameStep]_vars

\* a restart has cleared the alt text of a row and the title of its page is still
\* in the row store
C16_Witness ==
    /\ args.restart /\ Len(runs) = 2 /\ pc = "scrape"
    /\ \E i \in 1..Len(df) : df[i]["ALT text"] = <<>> /\ Filled(df[i]["title tag"])

\* the start of a run over a file with alt text, the operator not having confirmed
\* a restart: the alt text of every row is as in the file, and the file is as it was
ConfirmedRestartStep ==
    (/\ pc = "idle"
     /\ Len(runs') > Len(runs)
     /\ existing_count(load(disk)) > 0
     /\ ~args'.confirmed) =>
        /\ \A i \in 1..Len(df') : df'[i]["ALT text"] = load(disk)[i]["ALT text"]
        /\ disk' = disk

\* C17: in either pipeline, the alt text of a file that has some is cleared by a
\* restart only when the operator has confirmed it; otherwise no row is changed
C17_RestartNeedsConfirmation == [][ConfirmedRestartStep]_vars

(***************************************************************************)
(* One run of the CLI in which Ctrl-C may also arrive inside process_batch, *)
(* between two iterations of its loop over the results.  KeyboardInterrupt *)
(* is not an Exception: process_batch does not catch it, main does.        *)
(***************************************************************************)
\* main's KeyboardInterrupt handler, the objects being those of m and the calls o
InterruptedFlush(m, o) ==
    /\ df' = m.df
    /\ progress' = m.progress
    /\ outputs' = [outputs EXCEPT !.simplified = m.simplified]
    /\ disk' = save(m.df)
    /\ obs' = o
    /\ EndRun("interrupted")
    /\ UNCHANGED <<pure, mode, tbl, args, csv_results>>

\* Ctrl-C in the process_batch of the row loop, after n results were written
CliInterruptInBatch ==
    /\ mode = "cli" /\ InRowLoop /\ Downloads
    /\ \E img \in ImageOutcomes :
         LET got == download_image(img)
             seen == [obs EXCEPT !.downloads = Append(@, idx)]
             m0 == [Machine EXCEPT
                      !.df = update_row(@, idx, "adjacent text" :> image_info.adjacent_text)]
             b == Append(batch, BatchEntry(got))
             should_process == Len(b) >= BATCH_SIZE \/ got.size_category = "large"
         IN  /\ got.has_path /\ got.size_category # "too_large" /\ img.readable
             /\ should_process
             /\ \E reply \in ApiReplies(b) :
                  LET res == generate_batch(b, reply)
                  IN  /\ ~res.raised
                      /\ \E n \in 0..Len(res.results) :
                           InterruptedFlush(
                               apply_results(m0, b, SubSeq(res.results, 1, n), 1),
                               [seen EXCEPT !.calls = Append(@, Call(b))])

\* Ctrl-C in the process_batch after the row loop, after n results were written
CliInterruptInFinalBatch ==
    /\ mode = "cli" /\ pc = "rows" /\ row_pos > Len(rows_to_process)
    /\ batch # <<>>
    /\ \E reply \in ApiReplies(batch) :
         LET res == generate_batch(batch, reply)
         IN  /\ ~res.raised
             /\ \E n \in 0..Len(res.results) :
                  InterruptedFlush(
                      apply_results(Machine, batch, SubSeq(res.results, 1, n), 1),
                      [obs EXCEPT !.calls = Append(@, Call(batch))])

InitCancel ==
    /\ pure = NoPure
    /\ InitPipeline({"cli"}, TablesUpTo(MaxRows))

NextCancel ==
    \/ CliStartWith(Ceilings, 1)
    \/ CliPageStored
    \/ CliPageScrape
    \/ CliRowDuplicate
    \/ CliRowVariant
    \/ CliRowDefer
    \/ CliRowDeclaredTooLarge
    \/ CliRowScrapeError
    \/ CliRowRejected
    \/ CliRowAdmit
    \/ CliFinish
    \/ CliInterrupt
    \/ CliInterruptInBatch
    \/ CliInterruptInFinalBatch

SpecCancel == InitCancel /\ [][NextCancel]_vars

\* the rows of the batch in flight: those waiting in the batch, and the row of the
\* iteration under way
InFlight == {batch[k].index : k \in 1..Len(batch)} \cup (IF InRowLoop THEN {idx} ELSE {})

\* the run is interrupted: every row of the batch in flight is without alt text in
\* the saved file, to be processed by the next run
CancelStep ==
    (mode = "cli" /\ pc # "idle" /\ pc' = "idle" /\ LastRun' = "interrupted") =>
        \A i \in InFlight : i \in Range(get_rows_to_process(load(disk')))

\* C18: when Ctrl-C arrives during process_images or process_batch, the file saved
\* by the handler has no result of the batch in flight: every row of that batch is
\* still a row to process
C18_InterruptKeepsNoPartialBatch == [][CancelStep]_vars

(***************************************************************************)
(* processing_queue.py and the part of streamlit_app.py that takes work    *)
(* from it: callers that share one ProcessingQueue, each running main's    *)
(* "process next job" block and process_next_job.  Every method of the     *)
(* queue holds the lock for its whole body, so it is one step.             *)
(***************************************************************************)
MaxJobs == 2

MaxCallers == 2

QueueCallers == 1..MaxCallers

\* ProcessingQueue.get_next_job: the position of the first QUEUED job, 0 for None
get_next_job(jobs) ==
    IF \E j \in 1..Len(jobs) : jobs[j] = "queued"
    THEN SetMin({j \in 1..Len(jobs) : jobs[j] = "queued"})
    ELSE 0

\* ProcessingQueue.get_current_job: the position of the first PROCESSING job, 0 for None
get_current_job(jobs) ==
    IF \E j \in 1..Len(jobs) : jobs[j] = "processing"
    THEN SetMin({j \in 1..Len(jobs) : jobs[j] = "processing"})
    ELSE 0

\* an empty queue, every caller before main's block
InitQueue ==
    /\ pure = [op |-> "queue", jobs |-> <<>>, handed |-> <<>>,
               at |-> [c \in QueueCallers |-> "idle"], job |-> [c \in QueueCallers |-> 0]]
    /\ NoPipeline

\* scan_for_new_files and add_job: a file has appeared in the watched directory
QueueAddJob ==
    /\ Len(pure.jobs) < MaxJobs
    /\ pure' = [pure EXCEPT !.jobs = Append(@, "queued"), !.handed = Append(@, 0)]
    /\ UNCHANGED pipeVars

\* streamlit_app.main: `current_job = queue.get_current_job()` and the test of it
MainCurrentJob(c) ==
    /\ pure.at[c] = "idle"
    /\ get_current_job(pure.jobs) = 0
    /\ pure' = [pure EXCEPT !.at[c] = "checked"]
    /\ UNCHANGED pipeVars

\* streamlit_app.main: `next_job = queue.get_next_job()`, then process_next_job()
MainNextJob(c) ==
    /\ pure.at[c] = "checked"
    /\ pure' = [pure EXCEPT !.at[c] = IF get_next_job(pure.jobs) = 0 THEN "idle" ELSE "called"]
    /\ UNCHANGED pipeVars

\* process_next_job: `job = queue.get_next_job()`, return when there is none
NextJobTaken(c) ==
    /\ pure.at[c] = "called"
    /\ pure' = [pure EXCEPT !.job[c] = get_next_job(pure.jobs),
                            !.at[c] = IF get_next_job(pure.jobs) = 0 THEN "idle" ELSE "got"]
    /\ UNCHANGED pipeVars

\* process_next_job: queue.mark_processing(job)
MarkProcessing(c) ==
    /\ pure.at[c] = "got"
    /\ pure' = [pure EXCEPT !.jobs[pure.job[c]] = "processing", !.at[c] = "marked"]
    /\ UNCHANGED pipeVars

\* process_next_job: process_csv_file(csv_path=job.csv_path, ...) is called
JobHanded(c) ==
    /\ pure.at[c] = "marked"
    /\ pure' = [pure EXCEPT !.handed[pure.job[c]] = @ + 1, !.at[c] = "running"]
    /\ UNCHANGED pipeVars

\* process_next_job: process_csv_file has returned or raised; mark_completed or
\* mark_failed
JobEnded(c) ==
    /\ pure.at[c] = "running"
    /\ \E status \in {"completed", "failed"} :
          pure' = [pure EXCEPT !.jobs[pure.job[c]] = status, !.at[c] = "idle", !.job[c] = 0]
    /\ UNCHANGED pipeVars

NextQueue ==
    \/ QueueAddJob
    \/ \E c \in QueueCallers : MainCurrentJob(c)
    \/ \E c \in QueueCallers : MainNextJob(c)
    \/ \E c \in QueueCallers : NextJobTaken(c)
    \/ \E c \in QueueCallers : MarkProcessing(c)
    \/ \E c \in QueueCallers : JobHanded(c)
    \/ \E c \in QueueCallers : JobEnded(c)

SpecQueue == InitQueue /\ [][NextQueue]_vars

\* C19: whatever the interleaving of the callers of a ProcessingQueue, at most one
\* of its jobs is PROCESSING at a time and no job is handed to process_csv_file
\* more than once
C19_SerializedRuns ==
    pure.op = "queue" =>
        /\ Cardinality({j \in 1..Len(pure.jobs) : pure.jobs[j] = "processing"}) <= 1
        /\ \A j \in 1..Len(pure.handed) : pure.handed[j] <= 1

(***************************************************************************)
(* The file of --output when a run of the CLI completes.                   *)
(***************************************************************************)
\* the image URLs with a row of valid alt text in the table d
ValidUrls(d) ==
    {tbl[i].Destination : i \in {j \in 1..Len(d) : is_valid_alt_text(d[j]["ALT text"])}}

\* a run with --output completes: the file has one row for each image URL with a
\* row of valid alt text in the table, and each row of the file has the alt text of
\* a row of the table with that URL
OutputCompleteStep ==
    (mode = "cli" /\ writer.on /\ pc # "idle" /\ pc' = "idle" /\ LastRun' = "done") =>
        /\ {outputs'.simplified[k][1] : k \in 1..Len(outputs'.simplified)} = ValidUrls(df')
        /\ \A j, k \in 1..Len(outputs'.simplified) :
               outputs'.simplified[j][1] = outputs'.simplified[k][1] => j = k
        /\ \A k \in 1..Len(outputs'.simplified) :
               \E i \in 1..Len(df') :
                   /\ tbl[i].Destination = outputs'.simplified[k][1]
                   /\ df'[i]["ALT text"] = outputs'.simplified[k][2]

\* C20: when a run of the CLI with --output completes, the file written through
\* SimplifiedCSVWriter has exactly one row for each distinct image URL that has a
\* row with valid alt text in the full table, with that alt text; rows resolved by
\* a duplicate or variant copy and rows completed by an earlier run included
C20_OutputCoversTable == [][OutputCompleteStep]_vars

(***************************************************************************)
(* The rows deferred against the open batch, at the flush of that batch.   *)
(***************************************************************************)
\* the step flushes the open batch of process_images with rows deferred against it
FlushOfDeferred ==
    /\ mode = "cli" /\ pc = "rows"
    /\ pending_variants # <<>> /\ pending_variants' = <<>>
    /\ LastRun' # "interrupted"

\* the row of the open batch a deferred row was deferred against
CanonicalRow(variant) ==
    batch[CHOOSE k \in 1..Len(batch) :
              batch[k].image_url = batch_base_filenames[variant.base_filename]].index

\* the rows carried by the calls of generate_batch made so far, in obs o
SubmittedRows(o) ==
    UNION {{o.calls[c][k].index : k \in 1..Len(o.calls[c])} : c \in 1..Len(o.calls)}

\* at the flush every deferred row is resolved, and none was submitted
DeferredResolvedStep ==
    FlushOfDeferred =>
        /\ progress'.processed_images + progress'.failed_images
             = progress.processed_images + progress.failed_images
               + (Len(obs'.calls[Len(obs'.calls)]) + Len(pending_variants))
        /\ \A k \in 1..Len(pending_variants) :
             LET variant == pending_variants[k]
                 canon == CanonicalRow(variant)
             IN  /\ variant.idx \notin SubmittedRows(obs')
                 /\ IF Filled(df'[canon]["ALT text"])
                    THEN df'[variant.idx]["ALT text"] = df'[canon]["ALT text"]
                    ELSE /\ ~Filled(df'[variant.idx]["ALT text"])
                         /\ df'[variant.idx]["message"] = MsgVariantOfFailed

\* C21: a row deferred as a pending variant is never in a generate_batch call, and
\* the flush of the batch it was deferred against resolves it: with the alt text of
\* the canonical row when that row succeeded, as a failure (message recorded, counted
\* as failed) when the canonical row's result is an error or the call raised
C21_DeferredResolvedAtFlush == [][DeferredResolvedStep]_vars

(***************************************************************************)
(* The two caches of process_images after a call of process_batch.         *)
(***************************************************************************)
\* the step makes a generate_batch call inside the row loop of process_images
BatchCallInLoop ==
    /\ mode = "cli" /\ pc = "rows" /\ pc' = "rows"
    /\ Len(obs'.calls) = Len(obs.calls) + 1

\* what a cache holds for a row after its batch: the alt text, or None for a failure
CacheValue(d, i) == IF Filled(d[i]["ALT text"]) THEN d[i]["ALT text"] ELSE None

\* after the call every row of the batch is in both caches, with its result
CachesPopulatedStep ==
    BatchCallInLoop =>
        \A k \in 1..Len(obs'.calls[Len(obs'.calls)]) :
            LET e == obs'.calls[Len(obs'.calls)][k]
                base == extract_base_filename(e.image_url)
            IN  /\ e.image_url \in DOMAIN processed_images'
                /\ processed_images'[e.image_url] = CacheValue(df', e.index)
                /\ base \in DOMAIN processed_base_filenames'
                /\ processed_base_filenames'[base] = CacheValue(df', e.index)

\* C22: once process_batch has returned and before the next row is evaluated, every
\* row of the batch has an entry under its image URL in the exact-URL cache and one
\* under its base filename in the base-filename cache: the alt text on success, the
\* failure marker on a per-image error, an empty result or an exception of the call
C22_CachesPopulatedAfterBatch == [][CachesPopulatedStep]_vars

(***************************************************************************)
(* The open batch of process_images holds one row per base filename.       *)
(***************************************************************************)
\* no two entries of the batch or call b have the same base filename
NoBaseCollision(b) ==
    \A j, k \in 1..Len(b) :
        extract_base_filename(b[j].image_url) = extract_base_filename(b[k].image_url) => j = k

\* the base filenames of the entries of b
BatchBases(b) == {extract_base_filename(b[k].image_url) : k \in 1..Len(b)}

\* C23: at every point of a run of process_images no two entries of the open batch,
\* and so of any generate_batch call, have the same base filename; a row whose base
\* filename is in the open batch waits in pending_variants and is not in the batch
C23_OpenBatchNoCollision ==
    mode = "cli" =>
        /\ NoBaseCollision(batch)
        /\ \A c \in 1..Len(obs.calls) : NoBaseCollision(obs.calls[c])
        /\ \A k \in 1..Len(pending_variants) :
               /\ pending_variants[k].base_filename \in BatchBases(batch)
               /\ \A j \in 1..Len(batch) : batch[j].index # pending_variants[k].idx

\* a row with the base filename of an entry of the open batch has been deferred
C23_Witness ==
    /\ mode = "cli" /\ pc = "rows"
    /\ batch # <<>>
    /\ pending_variants # <<>>

(***************************************************************************)
(* The generate_batch calls of process_csv_file.                           *)
(***************************************************************************)
\* no two entries of the call b have the same base filename or the same image URL
NoCsvCollision(b) ==
    \A j, k \in 1..Len(b) :
        (\/ b[j].image_url = b[k].image_url
         \/ processor_extract_base_filename(b[j].image_url)
              = processor_extract_base_filename(b[k].image_url)) => j = k

\* C24: no generate_batch call of process_csv_file carries two rows with the same
\* base filename or the same image URL: a second variant met before the batch is
\* flushed is not submitted on its own
C24_CsvBatchNoCollision ==
    mode = "csv" =>
        /\ NoCsvCollision(batch)
        /\ \A c \in 1..Len(obs.calls) : NoCsvCollision(obs.calls[c])

(***************************************************************************)
(* process_batch when the generate_batch call raises.                      *)
(***************************************************************************)
\* m1 is m0 with every row of the batch b failed by the exception error: the same
\* message on each, one more failure in the ledger for each, the URL of each in the
\* exact-URL cache as failed, and the alt text of each as it was (none)
BatchFailed(m0, b, error, m1) ==
    /\ \A k \in 1..Len(b) :
           /\ m1.df[b[k].index]["message"] = MsgBatchError \o error
           /\ ~Filled(m1.df[b[k].index]["ALT text"])
           /\ b[k].image_url \in DOMAIN m1.processed_images
           /\ m1.processed_images[b[k].image_url] = None
    /\ m1.progress.failed_images = m0.progress.failed_images + Len(b)
    /\ m1.progress.processed_images = m0.progress.processed_images
    /\ m1.progress.skipped_images = m0.progress.skipped_images

\* every answer of the API to the batch b that makes generate_batch raise leaves
\* the batch failed
RaiseFailsBatch(m0, b) ==
    \A reply \in ApiReplies(b) :
        LET res == generate_batch(b, reply)
        IN  res.raised => BatchFailed(m0, b, res.error, process_batch(m0, b, reply))

\* C25: wherever process_images calls process_batch (the batch is full or the image
\* large, or the loop has ended with a batch open), if generate_batch raises then
\* every row of the batch is marked failed with the same message, is counted once
\* as failed, has its URL recorded as failed in the exact-URL cache, and none
\* receives alt text
C25_BatchWideFailure ==
    (mode = "cli" /\ pc = "rows") =>
        /\ (row_pos > Len(rows_to_process) /\ batch # <<>>) => RaiseFailsBatch(Machine, batch)
        /\ (InRowLoop /\ Downloads) =>
              \A img \in ImageOutcomes :
                  LET got == download_image(img)
                      m0 == [Machine EXCEPT
                               !.df = update_row(@, idx, "adjacent text" :> image_info.adjacent_text)]
                      b == Append(batch, BatchEntry(got))
                  IN  (/\ got.has_path /\ got.size_category # "too_large" /\ img.readable
                       /\ (Len(b) >= BATCH_SIZE \/ got.size_category = "large"))
                      => RaiseFailsBatch(m0, b)

\* a run has ended after a generate_batch call of two rows that raised: both rows
\* carry the message of the exception and both are counted as failed
C25_Witness ==
    /\ mode = "cli" /\ pc = "idle" /\ LastRun = "done"
    /\ obs.calls # <<>>
    /\ Len(obs.calls[Len(obs.calls)]) = 2
    /\ \A k \in 1..2 :
           df[obs.calls[Len(obs.calls)][k].index]["message"] = MsgBatchError \o ErrRetryRateLimit
    /\ progress.failed_images = 2

(***************************************************************************)
(* A URL recorded as failed in the exact-URL cache of process_images.      *)
(***************************************************************************)
\* the row under evaluation has a URL that processed_images holds as failed
UrlKnownFailed ==
    /\ mode = "cli" /\ InRowLoop
    /\ image_url \in DOMAIN processed_images
    /\ processed_images[image_url] = None

\* the iteration on such a row marks it failed and asks nothing of the image server
\* or of the vision API
NoRetryStep ==
    (UrlKnownFailed /\ pc' = "rows") =>
        /\ row_pos' = row_pos + 1
        /\ df'[idx]["message"] = MsgDuplicateOfFailed
        /\ ~Filled(df'[idx]["ALT text"])
        /\ progress'.failed_images = progress.failed_images + 1
        /\ obs'.downloads = obs.downloads
        /\ obs'.calls = obs.calls
        /\ batch' = batch
        /\ pending_variants' = pending_variants

\* C26: once an image URL is in the exact-URL cache as failed or skipped, every later
\* row of the same run with that URL is marked failed with no download attempt and
\* no submission to the vision API
C26_NoRetryWithinRun == [][NoRetryStep]_vars

\* a later row with the URL of a failed image has been marked, the image having
\* been asked of the server once
C26_Witness ==
    /\ mode = "cli"
    /\ \E i \in 1..Len(df) :
           /\ df[i]["message"] = MsgDuplicateOfFailed
           /\ \E j \in 1..(i - 1) :
                  /\ tbl[j].Destination = tbl[i].Destination
                  /\ obs.downloads = <<j>>

(***************************************************************************)
(* The order of the checks of an iteration of process_images.              *)
(***************************************************************************)
\* the five checks that come before download_image, each on its own
InUrlCache == image_url \in DOMAIN processed_images

InBaseCache == base_filename \in DOMAIN processed_base_filenames

InOpenBatch == base_filename \in DOMAIN batch_base_filenames

OverDeclaredSize == tbl[idx].Size # <<>> /\ tbl[idx].Size[1] > MAX_FILE_SIZE_BYTES

PageScrapeFailed == Truthy(page_info.error) \/ Truthy(image_info.error)

\* the iteration ends at the first check that matches, with no download
AdmissionOrderStep ==
    (/\ mode = "cli" /\ InRowLoop /\ pc' = "rows"
     /\ InUrlCache \/ InBaseCache \/ InOpenBatch \/ OverDeclaredSize \/ PageScrapeFailed) =>
        /\ obs'.downloads = obs.downloads
        /\ obs'.calls = obs.calls
        /\ row_pos' = row_pos + 1
        /\ batch' = batch
        /\ IF InUrlCache
           THEN /\ processed_images' = processed_images
                /\ pending_variants' = pending_variants
                /\ IF Truthy(processed_images[image_url])
                   THEN df'[idx]["ALT text"] = processed_images[image_url]
                   ELSE df'[idx]["message"] = MsgDuplicateOfFailed
           ELSE IF InBaseCache
           THEN /\ processed_images' = Put(processed_images, image_url,
                                           processed_base_filenames[base_filename])
                /\ pending_variants' = pending_variants
                /\ IF Truthy(processed_base_filenames[base_filename])
                   THEN df'[idx]["ALT text"] = processed_base_filenames[base_filename]
                   ELSE df'[idx]["message"] = MsgVariantOfFailed
           ELSE IF InOpenBatch
           THEN /\ Len(pending_variants') = Len(pending_variants) + 1
                /\ pending_variants'[Len(pending_variants')].idx = idx
                /\ df' = df
                /\ processed_images' = processed_images
           ELSE IF OverDeclaredSize
           THEN /\ StartsWith(df'[idx]["message"], MsgTooLargePrefix)
                /\ progress'.skipped_images = progress.skipped_images + 1
                /\ pending_variants' = pending_variants
           ELSE /\ StartsWith(df'[idx]["message"], MsgScrapingFailed)
                /\ progress'.failed_images = progress.failed_images + 1
                /\ pending_variants' = pending_variants

\* C27: no download is attempted for a row resolved by the exact-URL cache, by the
\* base-filename cache, by deferral against the open batch, by the declared-size
\* ceiling or by a scrape error of its page; the checks are applied in that order
\* and the first that matches ends the evaluation of the row
C27_AdmissionOrder == [][AdmissionOrderStep]_vars

\* a row over the declared-size ceiling on a page whose scrape failed has been
\* ended by the size check, the earlier of the two, with no download
C27_Witness ==
    /\ mode = "cli" /\ pc = "rows" /\ row_pos > 1
    /\ \E i \in 1..Len(df) :
           /\ StartsWith(df[i]["message"], MsgTooLargePrefix)
           /\ tbl[i].Source \in DOMAIN page_data
           /\ Truthy(page_data[tbl[i].Source].page_data.error)
    /\ obs.downloads = <<>>

(***************************************************************************)
(* A page whose scrape failed with an error other than forbidden.          *)
(***************************************************************************)
\* the step scrapes a page and stores a result that carries an error
SoftFailureOfPage ==
    /\ mode = "cli" /\ pc = "scrape"
    /\ Len(obs'.scraped) = Len(obs.scraped) + 1
    /\ unique_pages[page_pos] \in DOMAIN page_data'
    /\ Truthy(page_data'[unique_pages[page_pos]].page_data.error)

\* the row under evaluation is of a page whose scrape failed and no earlier check
\* of the iteration matches
RowOfFailedPage ==
    /\ mode = "cli" /\ InRowLoop
    /\ ~InUrlCache /\ ~InBaseCache /\ ~InOpenBatch /\ ~OverDeclaredSize
    /\ source_url \in DOMAIN page_data
    /\ Truthy(page_data[source_url].page_data.error)

\* the run goes on after the failed page, and a row of it is marked failed
SoftFailureStep ==
    /\ SoftFailureOfPage =>
          /\ LastRun' = "running"
          /\ page_pos' = page_pos + 1
          /\ pc' = IF page_pos = Len(unique_pages) THEN "rows" ELSE "scrape"
    /\ (RowOfFailedPage /\ pc' = "rows") =>
          /\ df'[idx]["message"] = MsgScrapingFailed \o page_data[source_url].page_data.error
          /\ ~Filled(df'[idx]["ALT text"])
          /\ progress'.failed_images = progress.failed_images + 1
          /\ progress'.processed_images = progress.processed_images
          /\ obs'.downloads = obs.downloads
          /\ obs'.calls = obs.calls
          /\ batch' = batch
          /\ row_pos' = row_pos + 1

\* C28: when the scrape of a page fails with an error other than forbidden, the run
\* continues with the next page, and every row to process of the failed page that is
\* not ended by a cache hit, a deferral or the declared size is marked failed with
\* the scrape error, is counted as failed, and causes no download and no vision call
C28_PageSoftFailure == [][SoftFailureStep]_vars

\* the first of two pages failed, the second was scraped all the same, and the row
\* of the first page is marked with the scrape error without a download
C28_Witness ==
    /\ mode = "cli" /\ pc = "rows"
    /\ Len(obs.scraped) = 2
    /\ Truthy(page_data[obs.scraped[1]].page_data.error)
    /\ ~Truthy(page_data[obs.scraped[2]].page_data.error)
    /\ \E i \in 1..Len(df) :
           /\ tbl[i].Source = obs.scraped[1]
           /\ df[i]["message"] = MsgScrapingFailed \o page_data[obs.scraped[1]].page_data.error
           /\ \A k \in 1..Len(obs.downloads) : obs.downloads[k] # i

(***************************************************************************)
(* What the row store holds of a page once its scrape has succeeded.       *)
(***************************************************************************)
\* the step scrapes a page and stores a result without error
ScrapeSucceeded ==
    /\ mode = "cli" /\ pc = "scrape"
    /\ Len(obs'.scraped) = Len(obs.scraped) + 1
    /\ unique_pages[page_pos] \in DOMAIN page_data'
    /\ ~Truthy(page_data'[unique_pages[page_pos]].page_data.error)

\* every row of the page has the title, the heading and its own adjacent text, in
\* memory and in the saved file
ContextDistributedStep ==
    ScrapeSucceeded =>
        LET page_url == unique_pages[page_pos]
            result == page_data'[page_url]
            indices == get_images_for_page(tbl, page_url)
        IN  \A k \in 1..Len(indices) :
                LET i == indices[k]
                    own == result.images[tbl[i].Destination].adjacent_text
                IN  /\ df'[i]["title tag"] = result.page_data.title
                    /\ df'[i]["H1 tag"] = result.page_data.h1
                    /\ df'[i]["adjacent text"] = own
                    /\ load(disk')[i]["adjacent text"] = own

\* C29: once scrape_page has returned for a page without error, and before the next
\* page is handled, every row of that page holds in the row store the returned title
\* and heading and its own adjacent text, so that a run resumed after a crash finds
\* the adjacent text the scrape produced
C29_ContextDistributed == [][ContextDistributedStep]_vars

(***************************************************************************)
(* The saved file after each page of the scrape loop of process_images.    *)
(***************************************************************************)
\* the step ends the handling of a page of the scrape loop
PageHandled == mode = "cli" /\ pc = "scrape" /\ page_pos' = page_pos + 1

\* the rows of the pages handled up to and with the page at position n
RowsOfPagesUpTo(n) == {i \in 1..Len(tbl) : \E k \in 1..n : tbl[i].Source = unique_pages[k]}

\* after the page the file holds the page context the memory holds, and a page that
\* was scraped, with or without error, has been followed by a save
PersistStep ==
    PageHandled =>
        /\ Len(obs'.scraped) > Len(obs.scraped) => disk' = save(df')
        /\ \A i \in RowsOfPagesUpTo(page_pos) :
               \A c \in {"title tag", "H1 tag"} : disk'.rows[i][c] = ToCsvCell(df'[i][c])

BatchFlushed == Len(obs'.calls) = Len(obs.calls) + 1

\* after the flush the input file holds the table as the flush left it
PersistAfterFlushStep == BatchFlushed => disk' = save(df')

\* C31: in process_images and in process_csv_file, after every flush of a batch
\* (full batch, large image, or remainder at the end of the input; the vision call
\* answered or raised) the row store is saved to the input file before the next row
\* is evaluated or the run ends
C31_PersistAfterEachFlush == [][PersistAfterFlushStep]_vars

(***************************************************************************)
(* The result loops of process_batch and of process_csv_file on their own: *)
(* a batch and the outcomes of its images in some order are chosen, then   *)
(* both loops are applied to them.                                         *)
(***************************************************************************)
MaxMatchRows == 3

MatchUrls == {UrlPic30, UrlPic9, UrlPic1}

\* the entry of either batch for the image u of row k
MatchEntry(u, k) ==
    [image_url |-> u, index |-> k, base_filename |-> processor_extract_base_filename(u),
     title |-> <<>>, h1 |-> <<>>, adjacent_text |-> <<>>, size_category |-> "normal"]

\* the batches: rows 1..n with different images
MatchBatches ==
    UNION {{[k \in 1..n |-> MatchEntry(f[k], k)] :
              f \in {g \in [1..n -> MatchUrls] : \A j, k \in 1..n : g[j] = g[k] => j = k}} :
           n \in 1..MaxMatchRows}

\* the outcome generate_batch gives for the image u: an alt text, or an error
Outcome(u, ok) ==
    [image_url |-> u,
     alt_text |-> IF ok THEN VisionText(u) ELSE None,
     error |-> IF ok THEN None ELSE ErrParse]

\* one outcome per image of b, in any order
OutcomesInAnyOrder(b) ==
    {[k \in 1..Len(b) |-> Outcome(b[p[k]].image_url, ok[p[k]])] :
        p \in Permutations(1..Len(b)), ok \in [1..Len(b) -> BOOLEAN]}

InitMatch ==
    /\ pure \in {[op |-> "batch", arg |-> [batch |-> b, results |-> r], cli |-> <<>>, csv |-> <<>>] :
                   b \in MatchBatches, r \in UNION {OutcomesInAnyOrder(c) : c \in MatchBatches}}
    /\ Len(pure.arg.results) = Len(pure.arg.batch)
    /\ \A k \in 1..Len(pure.arg.batch) :
           \E j \in 1..Len(pure.arg.results) :
               pure.arg.results[j].image_url = pure.arg.batch[k].image_url
    /\ NoPipeline

\* `for result in results` of process_batch and `for i, result in
\* enumerate(alt_text_results)` of process_csv_file, on tables without results
ApplyMatch ==
    /\ pure.op = "batch"
    /\ LET b == pure.arg.batch
           n == Len(b)
           m_cli == [df |-> BlankRows(n), progress |-> ProgressTracker(n),
                     processed_images |-> EmptyDict, processed_base_filenames |-> EmptyDict,
                     writer |-> [on |-> FALSE, written_urls |-> {}], simplified |-> <<>>]
           m_csv == [df |-> BlankRows(n), processed_images |-> EmptyDict, results |-> NoResults]
       IN  pure' = [pure EXCEPT !.op = "matched",
                                !.cli = apply_results(m_cli, b, pure.arg.results, 1).df,
                                !.csv = csv_apply_results(m_csv, b, pure.arg.results, 1).df]
    /\ UNCHANGED pipeVars

NextMatch == ApplyMatch

SpecMatch == InitMatch /\ [][NextMatch]_vars

\* the outcome among results for the image u
OutcomeOf(results, u) == results[CHOOSE j \in 1..Len(results) : results[j].image_url = u]

\* process_batch wrote to every row the outcome of its own image
MatchedByUrlCli ==
    \A k \in 1..Len(pure.arg.batch) :
        LET o == OutcomeOf(pure.arg.results, pure.arg.batch[k].image_url)
        IN  IF Truthy(o.error)
            THEN /\ pure.cli[k]["message"] = MsgApiError \o o.error
                 /\ pure.cli[k]["ALT text"] = <<>>
            ELSE pure.cli[k]["ALT text"] = o.alt_text

\* process_csv_file wrote to every row the outcome of its own image
MatchedByUrlCsv ==
    \A k \in 1..Len(pure.arg.batch) :
        LET o == OutcomeOf(pure.arg.results, pure.arg.batch[k].image_url)
        IN  pure.csv[k]["ALT text"] = IF Truthy(o.error) THEN MsgError \o o.error ELSE o.alt_text

CopiedInStep ==
    {i \in 1..Len(df') : /\ Len(df) = Len(df')
                         /\ ~Filled(df[i]["ALT text"])
                         /\ Filled(df'[i]["ALT text"])
                         /\ i \notin SubmittedRows(obs')}

\* rows are taken in input order, and a copy comes from a submitted earlier row
CopyOrderStep ==
    (mode = "cli" /\ pc = "rows" /\ LastRun' # "interrupted") =>
        /\ \A j, k \in 1..Len(rows_to_process) : j < k => rows_to_process[j] < rows_to_process[k]
        /\ pc' = "rows" => row_pos' = row_pos + 1
        /\ \A i \in CopiedInStep :
               \E j \in SubmittedRows(obs') :
                   /\ j < i
                   /\ df'[j]["ALT text"] = df'[i]["ALT text"]
                   /\ extract_base_filename(tbl[j].Destination)
                        = extract_base_filename(tbl[i].Destination)

\* C33: process_images evaluates the rows in input order, and every row resolved by
\* copy (duplicate URL, variant by base filename, pending variant) takes its alt text
\* from a vision result of a row with a smaller index, flushed before the copy is
\* made; no row is resolved from a later row
C33_CopiesFromEarlierRows == [][CopyOrderStep]_vars

\* the second row has the alt text of the first without having been submitted
C33_Witness ==
    /\ mode = "cli" /\ Len(df) = 2
    /\ SubmittedRows(obs) = {1}
    /\ Filled(df[2]["ALT text"])
    /\ df[2]["ALT text"] = df[1]["ALT text"]

(***************************************************************************)
(* The ledger of process_images.                                           *)
(***************************************************************************)
\* the rows the ledger has counted
Counted == progress.processed_images + progress.skipped_images + progress.failed_images

\* C34: at every point of a run of process_images no row to process has been
\* counted more than once across the processed, skipped and failed counters (the
\* count never exceeds the rows evaluated so far), and when process_images has
\* returned the three counters add up to the number of rows handed to it
C34_LedgerAccounting ==
    mode = "cli" =>
        /\ pc = "rows" => Counted <= row_pos - 1
        /\ Counted <= progress.total_images
        /\ (pc = "idle" /\ LastRun = "done") => Counted = progress.total_images

(***************************************************************************)
(* ProgressTracker.last_processed_index as the point to resume from.       *)
(***************************************************************************)
\* the row i has a result: alt text or a status message
Resolved(d, i) == Filled(d[i]["ALT text"]) \/ Filled(d[i]["message"])

\* every row to process up to last_processed_index is resolved, and the index does
\* not go back during a run
ResumePointStep ==
    (mode = "cli" /\ pc = "rows" /\ LastRun' # "interrupted") =>
        /\ progress'.last_processed_index >= progress.last_processed_index
        /\ \A k \in 1..Len(rows_to_process) :
               rows_to_process[k] <= progress'.last_processed_index
                   => Resolved(df', rows_to_process[k])

\* C35: whenever last_processed_index is i during a run of process_images, every row
\* to process with an index of at most i has been resolved (alt text or status
\* message written), and last_processed_index never decreases
C35_ResumePoint == [][ResumePointStep]_vars

(***************************************************************************)
(* One Streamlit session: streamlit_app.main run again and again over the  *)
(* ProcessingQueue of the session and the files of the watched directory.  *)
(* A path is its stem and its suffix.                                      *)
(***************************************************************************)
FileStems == {"a", "b"}

\* the files the watched directory can hold
WatchedFiles == [stem : FileStems, suffix : {".csv", ".yaml"}]

\* None where a path is optional (ProcessingJob.yaml_path)
NoPath == [stem |-> "", suffix |-> ""]

\* Path.with_suffix
with_suffix(path, suffix) == [path EXCEPT !.suffix = suffix]

\* the lists that hold every element of the set S once: the orders in which
\* Path.glob can return the files S
Listings(S) ==
    {l \in [1..Cardinality(S) -> S] : \A x \in S : \E k \in 1..Cardinality(S) : l[k] = x}

\* ProcessingJob(csv_path=csv_path) and its __post_init__, the directory holding files
ProcessingJob(csv_path, files) ==
    [csv_path |-> csv_path,
     yaml_path |-> IF with_suffix(csv_path, ".yaml") \in files
                   THEN with_suffix(csv_path, ".yaml") ELSE NoPath,
     status |-> "queued"]

\* ProcessingQueue.scan_for_new_files: the *.csv files that are not the csv_path of
\* a job, as a set
new_files(jobs, files) ==
    {f \in files : f.suffix = ".csv" /\ \A j \in 1..Len(jobs) : jobs[j].csv_path # f}

RECURSIVE add_jobs(_, _, _, _)
\* streamlit_app.scan_for_new_files: add_job for every path of the list, from k on
add_jobs(jobs, listed, files, k) ==
    IF k > Len(listed) THEN jobs
    ELSE add_jobs(Append(jobs, ProcessingJob(listed[k], files)), listed, files, k + 1)

\* the statuses of a list of jobs, for get_next_job and get_current_job
Statuses(jobs) == [j \in 1..Len(jobs) |-> jobs[j].status]

\* a cleanup that takes every job that has ended, FAILED jobs included
cleanup_ended_jobs(jobs, files) ==
    files \ UNION {{jobs[j].csv_path, jobs[j].yaml_path} :
                      j \in {i \in 1..Len(jobs) : jobs[i].status \in {"completed", "failed"}}}

\* ProcessingQueue.cleanup_completed_jobs: the files left in the directory
cleanup_completed_jobs(jobs, files) ==
    files \ UNION {{jobs[j].csv_path, jobs[j].yaml_path} :
                      j \in {i \in 1..Len(jobs) : jobs[i].status = "completed"}}

\* the ways process_csv_file (or the loading of the configuration before it) ends
\* for process_next_job: it returns, it raises an Exception, or it raises a
\* BaseException that is no Exception (KeyboardInterrupt, SystemExit, the
\* script-control exceptions a st.* call of on_status raises on a rerun or stop)
JobOutcomes == {"returned", "Exception", "BaseException"}

\* the queue and the session state after initialize_session_state, on an empty
\* watched directory
InitSession ==
    /\ pure = [op |-> "session", files |-> {}, jobs |-> <<>>, at |-> "idle", job |-> 0,
               processing |-> FALSE]
    /\ NoPipeline

\* a file is written into the watched directory (main's uploader, or the user)
UploadFile ==
    /\ \E f \in WatchedFiles \ pure.files : pure' = [pure EXCEPT !.files = @ \cup {f}]
    /\ UNCHANGED pipeVars

\* streamlit_app.main: scan_for_new_files()
MainScan ==
    /\ pure.at = "idle"
    /\ \E listed \in Listings(new_files(pure.jobs, pure.files)) :
          pure' = [pure EXCEPT !.jobs = add_jobs(@, listed, pure.files, 1), !.at = "scanned"]
    /\ UNCHANGED pipeVars

\* streamlit_app.main: the "process next job" block up to the call of process_next_job
MainTakesWork ==
    /\ pure.at = "scanned"
    /\ pure' = [pure EXCEPT !.at =
                   IF /\ get_current_job(Statuses(pure.jobs)) = 0
                      /\ ~pure.processing
                      /\ get_next_job(Statuses(pure.jobs)) # 0
                   THEN "called" ELSE "idle"]
    /\ UNCHANGED pipeVars

\* process_next_job up to the try block: get_next_job, mark_processing
ProcessNextJob ==
    /\ pure.at = "called"
    /\ LET job == get_next_job(Statuses(pure.jobs)) IN
          pure' = IF job = 0
                  THEN [pure EXCEPT !.processing = FALSE, !.at = "idle"]
                  ELSE [pure EXCEPT !.processing = TRUE, !.job = job,
                                    !.jobs[job].status = "processing", !.at = "running"]
    /\ UNCHANGED pipeVars

\* process_next_job, the try block and its except clause: mark_completed when
\* process_csv_file returns, mark_failed in `except Exception`, neither for an
\* exception the clause does not catch
TryEnds ==
    /\ pure.at = "running"
    /\ \E outcome \in JobOutcomes :
          pure' = [pure EXCEPT !.at = "finally",
                               !.jobs[pure.job].status =
                                   CASE outcome = "returned" -> "completed"
                                     [] outcome = "Exception" -> "failed"
                                     [] OTHER -> @]
    /\ UNCHANGED pipeVars

\* process_next_job, the finally block: cleanup_completed_jobs, processing = False;
\* the script ends (st.rerun, or the exception that was not caught)
Finally ==
    /\ pure.at = "finally"
    /\ pure' = [pure EXCEPT !.files = cleanup_completed_jobs(pure.jobs, @),
                            !.processing = FALSE, !.job = 0, !.at = "idle"]
    /\ UNCHANGED pipeVars

\* the steps of the script of the session
ScriptStep == MainScan \/ MainTakesWork \/ ProcessNextJob \/ TryEnds \/ Finally

NextSession == UploadFile \/ ScriptStep

SpecSession == InitSession /\ [][NextSession]_vars

\* the script is run again after it ends and every call it makes returns or raises
SpecSessionFair == SpecSession /\ WF_vars(ScriptStep)

\* the status of job j before and after a step, "none" before the job exists
StatusOf(p, j) == IF j <= Len(p.jobs) THEN p.jobs[j].status ELSE "none"

\* a step changes the status of a job only from QUEUED to PROCESSING or from
\* PROCESSING to COMPLETED or FAILED
LifecycleStep ==
    (pure.op = "session") =>
        \A j \in 1..Len(pure.jobs) :
            \/ StatusOf(pure', j) = StatusOf(pure, j)
            \/ StatusOf(pure, j) = "queued" /\ StatusOf(pure', j) = "processing"
            \/ StatusOf(pure, j) = "processing" /\ StatusOf(pure', j) \in {"completed", "failed"}

\* a job that is PROCESSING is COMPLETED or FAILED later
ProcessingEnds ==
    \A j \in 1..MaxJobs :
        (StatusOf(pure, j) = "processing") ~> (StatusOf(pure, j) \in {"completed", "failed"})

\* C36: a job's status only moves QUEUED -> PROCESSING -> COMPLETED or FAILED, a
\* COMPLETED or FAILED job keeps its status, and every job marked PROCESSING is
\* eventually COMPLETED or FAILED, whatever way process_csv_file ends
C36_JobLifecycle == [][LifecycleStep]_vars /\ ProcessingEnds

\* the first half of the lifecycle alone: the order of the statuses
C36_StatusOrder == [][LifecycleStep]_vars

(***************************************************************************)
(* cleanup_completed_jobs, as the finally block of process_next_job runs   *)
(* it.                                                                     *)
(***************************************************************************)
\* the positions of the COMPLETED jobs
CompletedJobs(jobs) == {j \in 1..Len(jobs) : jobs[j].status = "completed"}

\* the input CSV and the sidecar YAML of job j
FilesOfJob(jobs, j) == {jobs[j].csv_path, jobs[j].yaml_path}

\* the step that runs cleanup_completed_jobs removes the files of the COMPLETED
\* jobs, removes no other file, and leaves the job list as it is
CleanupStep ==
    (pure.op = "session" /\ pure.at = "finally" /\ pure'.at = "idle") =>
        /\ pure'.jobs = pure.jobs
        /\ pure'.files \subseteq pure.files
        /\ \A j \in CompletedJobs(pure.jobs) : FilesOfJob(pure.jobs, j) \cap pure'.files = {}
        /\ \A f \in pure.files \ pure'.files :
              \E j \in CompletedJobs(pure.jobs) : f \in FilesOfJob(pure.jobs, j)
        /\ \A j \in 1..Len(pure.jobs) :
              pure.jobs[j].status \in {"queued", "processing", "failed"} =>
                  FilesOfJob(pure.jobs, j) \cap pure.files \subseteq pure'.files

\* C38: cleanup_completed_jobs removes the input CSV and the sidecar YAML of the
\* COMPLETED jobs only; the files of QUEUED, PROCESSING and FAILED jobs stay, and
\* no job leaves the job list or changes status
C38_CleanupFrame == [][CleanupStep]_vars

\* the cleanup has run with one job COMPLETED, its CSV and YAML removed, and another
\* job FAILED, its CSV and YAML still in the watched directory
C38_Witness ==
    /\ pure.op = "session"
    /\ pure.at = "idle"
    /\ \E j, k \in 1..Len(pure.jobs) :
          /\ pure.jobs[j].status = "completed"
          /\ pure.jobs[j].yaml_path # NoPath
          /\ FilesOfJob(pure.jobs, j) \cap pure.files = {}
          /\ pure.jobs[k].status = "failed"
          /\ pure.jobs[k].yaml_path # NoPath
          /\ FilesOfJob(pure.jobs, k) \subseteq pure.files

(***************************************************************************)
(* Callers that share one ProcessingQueue, each running                    *)
(* streamlit_app.scan_for_new_files: queue.scan_for_new_files(), then      *)
(* queue.add_job for every path returned.  Each method of the queue is one *)
(* step; the lock is free between the steps.                               *)
(***************************************************************************)
\* an empty queue on an empty watched directory, no caller in its loop
InitScan ==
    /\ pure = [op |-> "scan", files |-> {}, jobs |-> <<>>,
               new_files |-> [c \in QueueCallers |-> <<>>]]
    /\ NoPipeline

\* a file is written into the watched directory
ScanUpload ==
    /\ \E f \in WatchedFiles \ pure.files : pure' = [pure EXCEPT !.files = @ \cup {f}]
    /\ UNCHANGED pipeVars

\* `new_files = st.session_state.queue.scan_for_new_files()` of caller c
ScanForNewFiles(c) ==
    /\ pure.new_files[c] = <<>>
    /\ \E listed \in Listings(new_files(pure.jobs, pure.files)) :
          pure' = [pure EXCEPT !.new_files[c] = listed]
    /\ UNCHANGED pipeVars

\* `st.session_state.queue.add_job(csv_file)` of caller c, for the next path of its
\* list
AddJob(c) ==
    /\ pure.new_files[c] # <<>>
    /\ pure' = [pure EXCEPT !.jobs = Append(@, ProcessingJob(Head(pure.new_files[c]), pure.files)),
                            !.new_files[c] = Tail(@)]
    /\ UNCHANGED pipeVars

NextScan ==
    \/ ScanUpload
    \/ \E c \in QueueCallers : ScanForNewFiles(c)
    \/ \E c \in QueueCallers : AddJob(c)

SpecScan == InitScan /\ [][NextScan]_vars

\* no two jobs of the list have the same csv_path
UniquePaths(jobs) ==
    \A j, k \in 1..Len(jobs) : jobs[j].csv_path = jobs[k].csv_path => j = k

\* the paths a step of scan_for_new_files has returned to a caller
Returned(c) ==
    IF pure.new_files[c] = <<>> /\ pure'.jobs = pure.jobs
    THEN Range(pure'.new_files[c]) ELSE {}

\* after a step the job list has no csv_path twice, and a scan returns no path that
\* has a job
UniqueStep ==
    (pure.op = "scan") =>
        /\ UniquePaths(pure'.jobs)
        /\ \A c \in QueueCallers : \A f \in Returned(c) :
              \A j \in 1..Len(pure.jobs) : pure.jobs[j].csv_path # f

\* C37: under any interleaving of callers that run scan_for_new_files and then
\* add_job for every returned path, the job list never has two jobs with the same
\* csv_path, and scan_for_new_files never returns a path that already has a job
C37_QueueUniqueness == [][UniqueStep]_vars

\* the second half alone: a scan returns no path that has a job
C37_ScanSkipsKnownPaths ==
    [][(pure.op = "scan") =>
          \A c \in QueueCallers : \A f \in Returned(c) :
              \A j \in 1..Len(pure.jobs) : pure.jobs[j].csv_path # f]_vars

(***************************************************************************)
(* file_watcher.py: CSVFileHandler, to which the observer thread delivers  *)
(* the events of the watched directory one after the other.                *)
(***************************************************************************)
\* ".csv"
ExtCsv == <<".", "c", "s", "v">>

\* the working directory of the process, "/w"
Cwd == <<"/", "w">>

\* the paths of the events: "a.csv", "/w/a.csv", "b.CSV", "/w/b.CSV", "c.csv",
\* "a.txt", "acsv"
EventPaths ==
    {<<"a", ".", "c", "s", "v">>, <<"/", "w", "/", "a", ".", "c", "s", "v">>,
     <<"b", ".", "C", "S", "V">>, <<"/", "w", "/", "b", ".", "C", "S", "V">>,
     <<"c", ".", "c", "s", "v">>, <<"a", ".", "t", "x", "t">>, <<"a", "c", "s", "v">>}

\* watchdog's FileCreatedEvent / DirCreatedEvent and FileMovedEvent / DirMovedEvent
CreatedEvents ==
    [type : {"created"}, is_directory : BOOLEAN, src_path : EventPaths, dest_path : {<<>>}]

MovedEvents ==
    [type : {"moved"}, is_directory : BOOLEAN, src_path : EventPaths, dest_path : EventPaths]

\* Path.absolute(): the path itself when it starts at the root, below the working
\* directory otherwise
absolute(path) == IF Head(path) = "/" THEN path ELSE Cwd \o <<"/">> \o path

\* CSVFileHandler._is_csv_file
is_csv_file(path) == EndsWith(StrLower(path), ExtCsv)

\* a handler that keeps no record of the paths it has seen
handle_csv_file_unrecorded(h, csv_path) == [h EXCEPT !.calls = Append(@, csv_path)]

\* CSVFileHandler._handle_csv_file on the handler h: the set _processed_files and the
\* list of the arguments on_new_csv has been called with
handle_csv_file(h, csv_path) ==
    IF absolute(csv_path) \in h.processed_files
    THEN h
    ELSE [h EXCEPT !.processed_files = @ \cup {absolute(csv_path)},
                   !.calls = Append(@, csv_path)]

\* CSVFileHandler.on_created
on_created(h, event) ==
    IF event.is_directory THEN h
    ELSE IF is_csv_file(event.src_path) THEN handle_csv_file(h, event.src_path)
    ELSE h

\* CSVFileHandler.on_moved
on_moved(h, event) ==
    IF event.is_directory THEN h
    ELSE IF is_csv_file(event.dest_path) THEN handle_csv_file(h, event.dest_path)
    ELSE h

\* CSVFileHandler.__init__, no event delivered
InitWatcher ==
    /\ pure = [op |-> "watcher",
               event |-> [type |-> "none", is_directory |-> FALSE, src_path |-> <<>>,
                          dest_path |-> <<>>],
               handler |-> [processed_files |-> {}, calls |-> <<>>]]
    /\ NoPipeline

\* the observer delivers a created event
OnCreated ==
    /\ \E event \in CreatedEvents :
          pure' = [pure EXCEPT !.event = event, !.handler = on_created(@, event)]
    /\ UNCHANGED pipeVars

\* the observer delivers a moved event
OnMoved ==
    /\ \E event \in MovedEvents :
          pure' = [pure EXCEPT !.event = event, !.handler = on_moved(@, event)]
    /\ UNCHANGED pipeVars

NextWatcher == OnCreated \/ OnMoved

SpecWatcher == InitWatcher /\ [][NextWatcher]_vars

\* on_new_csv has been called at most once for every absolute path
OncePerPath(calls) ==
    \A j, k \in 1..Len(calls) : absolute(calls[j]) = absolute(calls[k]) => j = k

\* the event delivered in a step is of a directory and on_new_csv is not called
DirectoryIgnored ==
    pure'.event.is_directory => pure'.handler.calls = pure.handler.calls

\* C39, as stated: on_new_csv is called at most once per distinct absolute path over
\* any sequence of created and moved events, never for a directory, and never with
\* a path that does not end in ".csv"
C39_AsStated ==
    [][(pure.op = "watcher") =>
          /\ OncePerPath(pure'.handler.calls)
          /\ DirectoryIgnored
          /\ \A k \in 1..Len(pure'.handler.calls) :
                EndsWith(pure'.handler.calls[k], ExtCsv)]_vars

\* C39, amended: on_new_csv is called at most once per distinct absolute path over
\* any sequence of created and moved events, never for a directory, and never with
\* a path whose lower-cased form does not end in ".csv"
C39_OncePerCsvPath ==
    [][(pure.op = "watcher") =>
          /\ OncePerPath(pure'.handler.calls)
          /\ DirectoryIgnored
          /\ \A k \in 1..Len(pure'.handler.calls) :
                EndsWith(StrLower(pure'.handler.calls[k]), ExtCsv)]_vars

\* on_new_csv was called with "a.csv" and with a path in upper case, and the event
\* just handled is the arrival by a move of the file "/w/a.csv", the same absolute
\* path
C39_Witness ==
    /\ pure.op = "watcher"
    /\ pure.event.type = "moved"
    /\ ~pure.event.is_directory
    /\ pure.event.dest_path = <<"/", "w", "/", "a", ".", "c", "s", "v">>
    /\ \E k \in 1..Len(pure.handler.calls) : pure.handler.calls[k] = <<"a", ".", "c", "s", "v">>
    /\ \E k \in 1..Len(pure.handler.calls) : ~EndsWith(pure.handler.calls[k], ExtCsv)

(***************************************************************************)
(* Canonicalization applied to its own result.                             *)
(***************************************************************************)
\* extract_base_filename of generate_alt_text.py gives its own result back on the
\* canonical name of every input
CliIdempotent ==
    pure.op = "applied" => extract_base_filename(pure.cli) = pure.cli

\* extract_base_filename of processor.py gives its own result back on the canonical
\* name of every input
CsvIdempotent ==
    pure.op = "applied" => processor_extract_base_filename(pure.csv) = pure.csv

\* C40: for every filename built from a stem, an optional numeric suffix, any run of
\* -<digits>x<digits> and -scaled suffixes and an extension,
\* extract_base_filename(extract_base_filename(u)) = extract_base_filename(u), in
\* the implementation of generate_alt_text.py and in that of processor.py
C40_CanonicalizationIdempotent == CliIdempotent /\ CsvIdempotent

\* the generate_alt_text.py half alone
C40_CliIdempotent == CliIdempotent

====
